---------------------------- MODULE Spec2Model ----------------------------
(***************************************************************************)
(* Model of the NDOP monthly publication pipeline (main.py and the ndop    *)
(* package): reporting-window expansion, temporal record resolution,       *)
(* demographic aggregation and the age/gender rate table.                  *)
(*                                                                         *)
(* Representation.                                                         *)
(*  - A DataFrame is a sequence of rows (records); row order is kept.      *)
(*  - A date is the tuple <<year, month, day>>, standing for the ISO text  *)
(*    "YYYY-MM-DD" (its lexicographic order is the chronological order).   *)
(*    NaT is the missing date.                                             *)
(*  - A text value is a sequence of one-character strings, so that strip,  *)
(*    replace and capitalize are computed character by character.  NaN is  *)
(*    the missing text value.                                              *)
(***************************************************************************)
EXTENDS Integers, Sequences, FiniteSets, TLC

VARIABLES
    pc,                       \* position of main.py
    end_date,                 \* --RPED
    reporting_period,         \* --months
    start_date,               \* reportDates.start_date
    sql_ndop,                 \* rows of PRIM_POS.ic.NDOP_DEMOG
    gp_patient_list,          \* list size source rows, in long form
    fault,                    \* the read or write that fails in this run
    list_size_df,             \* result of list_size.preprocess_list_size
    lsoa_df,                  \* result of lsoa.get_lsoa_mappings
    ndop_df,                  \* result of ndop_clean.get_ndop_data
    ndop_monthly_dfs,         \* list built by concatenate_ndop_monthly_records
    ndop_concat_df,           \* living records for each month
    ndop_deceased_concat_df,  \* deceased records for each month
    ndop_age_gen_csv,         \* result of create_age_gen_csv
    ndop_reg_geo_csv,         \* result of create_reg_geo_csv
    ndop_res_geo_csv,         \* result of create_res_geo_csv
    table_3_df,               \* result of create_table_3_df
    table_4_df,               \* result of create_table_4_df
    outputs_folder            \* the state of each file of the outputs folder

vars == <<pc, end_date, reporting_period, start_date, sql_ndop, gp_patient_list,
          fault, list_size_df, lsoa_df, ndop_df, ndop_monthly_dfs, ndop_concat_df,
          ndop_deceased_concat_df, ndop_age_gen_csv, ndop_reg_geo_csv,
          ndop_res_geo_csv, table_3_df, table_4_df, outputs_folder>>

-----------------------------------------------------------------------------
(* Bounds of the model *)

MaxRecords == 2      \* rows of the NDOP table
MaxPeriod == 1       \* reporting period, in months, of the resolver runs
MaxWindow == 12      \* longest reporting period of the window runs
MaxListRows == 2     \* rows of the list size table
MaxListSize == 2     \* largest list size of one row

-----------------------------------------------------------------------------
(* Generic helpers *)

Range(s) == {s[i] : i \in 1..Len(s)}

SeqsUpTo(S, n) == UNION {[1..k -> S] : k \in 0..n}

Min(a, b) == IF a <= b THEN a ELSE b

RECURSIVE SumSeq(_)
SumSeq(s) == IF s = <<>> THEN 0 ELSE Head(s) + SumSeq(Tail(s))

RECURSIVE Flatten(_)
Flatten(ss) == IF ss = <<>> THEN <<>> ELSE Head(ss) \o Flatten(Tail(ss))

\* the elements of a set of row numbers, ascending
Ascending(S) ==
    [k \in 1..Cardinality(S) |->
        CHOOSE i \in S : Cardinality({j \in S : j <= i}) = k] \o <<>>

\* (a sequence built as a function is concatenated with <<>> to make it a tuple)

\* rows of df satisfying P, in the order of df (boolean-mask indexing)
Filter(df, P(_)) ==
    LET kept == Ascending({i \in 1..Len(df) : P(df[i])})
    IN [k \in 1..Len(kept) |-> df[kept[k]]] \o <<>>

Map(df, F(_)) == [i \in 1..Len(df) |-> F(df[i])] \o <<>>

\* lexicographic order of two tuples, given the order of their elements
LexLT(a, b, LT(_, _)) ==
    \E i \in 1..Len(b) :
        /\ \A j \in 1..(i - 1) : j <= Len(a) /\ a[j] = b[j]
        /\ (i > Len(a) \/ LT(a[i], b[i]))

\* the elements of a finite set in ascending order
SortedSeq(S, LT(_, _)) ==
    LET before == [x \in S |-> Cardinality({y \in S : LT(y, x)})]
    IN [k \in 1..Cardinality(S) |-> CHOOSE x \in S : before[x] = k - 1] \o <<>>

\* stable sort of the rows by their sort keys: rows whose keys compare equal
\* keep their order
StableSortBy(s, Key(_), LT(_, _)) ==
    LET keys == [i \in 1..Len(s) |-> Key(s[i])] \o <<>>
        pos == [i \in 1..Len(s) |->
                   1 + Cardinality({j \in 1..Len(s) :
                          \/ LT(keys[j], keys[i])
                          \/ (j < i /\ ~LT(keys[i], keys[j]))})]
    IN [k \in 1..Len(s) |-> s[CHOOSE i \in 1..Len(s) : pos[i] = k]] \o <<>>

-----------------------------------------------------------------------------
(* Text values *)

NaN == <<"<NA>">>

isna(x) == x = NaN

\* the characters of the model's text values, in code point order
Alphabet == <<" ", "+", "-", "/",
              "0", "1", "2", "3", "4", "5", "6", "7", "8", "9",
              "A", "B", "C", "D", "E", "F", "G", "H", "I", "J", "K", "L", "M",
              "N", "O", "P", "Q", "R", "S", "T", "U", "V", "W", "X", "Y", "Z",
              "_",
              "a", "b", "c", "d", "e", "f", "g", "h", "i", "j", "k", "l", "m",
              "n", "o", "p", "q", "r", "s", "t", "u", "v", "w", "x", "y", "z">>

CodePoints ==
    [c \in Range(Alphabet) |-> CHOOSE i \in 1..Len(Alphabet) : Alphabet[i] = c]

Ord(c) == CodePoints[c]

CharLT(a, b) == Ord(a) < Ord(b)

StrLT(a, b) == LexLT(a, b, CharLT)

\* str.strip(chars): drops leading and trailing characters that are in chars
RECURSIVE LStrip(_, _)
LStrip(s, chars) ==
    IF s # <<>> /\ Head(s) \in chars THEN LStrip(Tail(s), chars) ELSE s

RECURSIVE RStrip(_, _)
RStrip(s, chars) ==
    IF s # <<>> /\ s[Len(s)] \in chars
    THEN RStrip(SubSeq(s, 1, Len(s) - 1), chars) ELSE s

StrStrip(s, chars) == IF isna(s) THEN NaN ELSE RStrip(LStrip(s, chars), chars)

\* Series.replace(mapping): whole-value replacement
Replace(s, mapping) == IF s \in DOMAIN mapping THEN mapping[s] ELSE s

\* str.replace(a, b) for one-character a and b
StrReplaceChar(s, a, b) ==
    IF isna(s) THEN NaN ELSE [i \in 1..Len(s) |-> IF s[i] = a THEN b ELSE s[i]]

Uppers == SubSeq(Alphabet, 15, 40)
Lowers == SubSeq(Alphabet, 42, 67)

Lower(c) == IF c \in Range(Uppers)
            THEN Lowers[CHOOSE i \in 1..Len(Uppers) : Uppers[i] = c] ELSE c

Upper(c) == IF c \in Range(Lowers)
            THEN Uppers[CHOOSE i \in 1..Len(Lowers) : Lowers[i] = c] ELSE c

\* str.capitalize(): first character upper case, the rest lower case
StrCapitalize(s) ==
    IF isna(s) THEN NaN
    ELSE [i \in 1..Len(s) |-> IF i = 1 THEN Upper(s[i]) ELSE Lower(s[i])]

fillna(x, value) == IF isna(x) THEN value ELSE x

-----------------------------------------------------------------------------
(* Dates *)

NaT == <<0, 0, 0>>

isnat(d) == d = NaT

IntLT(a, b) == a < b

\* comparisons with a missing date are False, as in pandas
DateLT(a, b) == ~isnat(a) /\ ~isnat(b) /\ LexLT(a, b, IntLT)
DateLE(a, b) == ~isnat(a) /\ ~isnat(b) /\ (a = b \/ LexLT(a, b, IntLT))
DateGT(a, b) == DateLT(b, a)
DateGE(a, b) == DateLE(b, a)

IsLeap(y) == (y % 4 = 0 /\ y % 100 # 0) \/ y % 400 = 0

DaysInMonth(y, m) ==
    IF m = 2 THEN (IF IsLeap(y) THEN 29 ELSE 28)
    ELSE IF m \in {4, 6, 9, 11} THEN 30 ELSE 31

\* date - pd.DateOffset(months=n): the day is clipped to the month's length
MinusMonths(d, n) ==
    LET k == d[1] * 12 + (d[2] - 1) - n
        y == k \div 12
        m == (k % 12) + 1
    IN <<y, m, Min(d[3], DaysInMonth(y, m))>>

NextMonthStart(d) == IF d[2] = 12 THEN <<d[1] + 1, 1, 1>> ELSE <<d[1], d[2] + 1, 1>>

\* MonthBegin.rollforward: d itself when it is a month start
RollForward(d) == IF d[3] = 1 THEN d ELSE NextMonthStart(d)

\* mutant: the end of the range is exclusive
RECURSIVE GenerateRangeExclusive(_, _)
GenerateRangeExclusive(cur, end) ==
    IF DateLT(cur, end)
    THEN <<cur>> \o GenerateRangeExclusive(NextMonthStart(cur), end)
    ELSE <<>>

RECURSIVE GenerateRange(_, _)
GenerateRange(cur, end) ==
    IF DateLE(cur, end) THEN <<cur>> \o GenerateRange(NextMonthStart(cur), end)
    ELSE <<>>

\* pd.date_range(start, end, freq="MS")
date_range(start, end) == GenerateRange(RollForward(start), end)

\* reportDates.get_report_period_start_date
get_report_period_start_date(end, period) == MinusMonths(end, period)

\* reportDates.get_reporting_months_list
get_reporting_months_list(start, end) == date_range(start, end)

\* strftime("%d/%m/%Y")
format_publication_date(d) == <<d[3], d[2], d[1]>>

\* utils.filter_data_to_current_month
filter_data_to_current_month(df, end) ==
    LET P(r) == r.ACH_DATE = format_publication_date(end) IN Filter(df, P)

-----------------------------------------------------------------------------
(* NDOP extraction and cleaning: config.get_ndop_data, ndop_clean *)

Rep(c, n) == [i \in 1..n |-> c]

INVALID_NHS_NUMBERS ==
    {Rep(c, 10) : c \in {"1", "2", "3", "4", "5", "6", "7", "8", "9"}}

Unallocated == <<"U", "n", "a", "l", "l", "o", "c", "a", "t", "e", "d">>
Unknown == <<"U", "n", "k", "n", "o", "w", "n">>
UnknownGender ==
    Unknown \o <<" ", "/", " ", "P", "r", "e", "f", "e", "r", " ", "n", "o", "t",
                 " ", "t", "o", " ", "s", "a", "y">>
Male == <<"M", "a", "l", "e">>
Female == <<"F", "e", "m", "a", "l", "e">>
All == <<"A", "l", "l">>
AllDeceased == <<"A", "l", "l", " ", "d", "e", "c", "e", "a", "s", "e", "d">>

\* the columns of the SELECT of config.get_ndop_data
ndop_columns ==
    {"NHS_Number", "AGE_BAND", "DATE_OF_DEATH", "GP_PRACTICE", "LSOA_CODE",
     "GENDER", "Record_Start_Date", "Record_End_Date"}

\* WHERE clause of config.get_ndop_data
\* mutant: Record_End_Date > start_date
sql_get_ndop_data_strict(table, start, end) ==
    LET P(r) == /\ DateLE(r.Record_Start_Date, end)
                /\ (DateGT(r.Record_End_Date, start) \/ isnat(r.Record_End_Date))
    IN Filter(table, P)

sql_get_ndop_data(table, start, end) ==
    LET P(r) == /\ DateLE(r.Record_Start_Date, end)
                /\ (DateGE(r.Record_End_Date, start) \/ isnat(r.Record_End_Date))
    IN Filter(table, P)

remove_nhs_number_which_are_invalid(df) ==
    LET P(r) == r.NHS_Number \notin INVALID_NHS_NUMBERS IN Filter(df, P)

\* mutant: a missing number is removed with the numbers that start with 9
remove_nhs_number_starting_with_9_or_null(df) ==
    LET P(r) == ~isna(r.NHS_Number) /\ (r.NHS_Number = <<>> \/ r.NHS_Number[1] # "9")
    IN Filter(df, P)

\* a missing number has no first character and is kept
remove_nhs_number_starting_with_9(df) ==
    LET P(r) == isna(r.NHS_Number) \/ r.NHS_Number = <<>> \/ r.NHS_Number[1] # "9"
    IN Filter(df, P)

remove_nhs_number_which_are_null(df) ==
    LET P(r) == ~isna(r.NHS_Number) IN Filter(df, P)

\* A frame is its rows and its column index: the rows are a sequence of
\* records, and the functions that look a column up take the column index as a
\* second argument, since a frame of zero rows has columns too.
\* cols is GP_PRACTICE and LSOA_CODE (REGISTERED_CCG, CCG_OF_RESIDENCE and
\* LOCAL_AUTHORITY are commented out); df[cols] raises KeyError when the frame
\* lacks one of the two, whatever its rows.  The outcome of the call is the
\* table it returns or the exception it raises.
fill_empty_categorical_column_values(df, columns) ==
    LET cols == {"GP_PRACTICE", "LSOA_CODE"}
        F(r) == [c \in DOMAIN r |->
                    IF c \in cols THEN fillna(r[c], Unallocated) ELSE r[c]]
    IN IF ~(cols \subseteq columns)
       THEN [raises |-> "KeyError", df |-> <<>>]
       ELSE [raises |-> "none", df |-> Map(df, F)]

fill_empty_gender_column_values(df) ==
    LET F(r) == [r EXCEPT !.GENDER = fillna(@, UnknownGender)] IN Map(df, F)

\* the pipe of the three filters and the two fills.  The filters read
\* df["NHS_Number"] and the last fill reads df["GENDER"]: each raises KeyError
\* on a frame without its column, and the exception of a step goes through
clean_nhs_numbers(df, columns) ==
    IF "NHS_Number" \notin columns THEN [raises |-> "KeyError", df |-> <<>>]
    ELSE LET filled == fill_empty_categorical_column_values(
                         remove_nhs_number_which_are_null(
                           remove_nhs_number_starting_with_9(
                             remove_nhs_number_which_are_invalid(df))),
                         columns)
         IN IF filled.raises # "none" THEN filled
            ELSE IF "GENDER" \notin columns
                 THEN [raises |-> "KeyError", df |-> <<>>]
            ELSE [raises |-> "none",
                  df |-> fill_empty_gender_column_values(filled.df)]

remove_practice_code_whitespace(df) ==
    LET F(r) == [r EXCEPT !.GP_PRACTICE = StrStrip(@, {" "})] IN Map(df, F)

age_mappings ==
    (<<"N", "/">> :> Unknown) @@
    (<<"9", "0", " ", "a", "n", "d", " ", "o", "v", "e", "r">> :> <<"9", "0", "+">>)

remap_ndop_age_column(df) ==
    LET F(r) == [r EXCEPT !.AGE_BAND =
                    Replace(StrStrip(@, {"A", "g", "e", " "}), age_mappings)]
    IN Map(df, F)

gender_mappings ==
    (<<"1">> :> Male) @@ (<<"2">> :> Female) @@ (<<"0">> :> UnknownGender) @@
    (<<"N", "o", "n", "e">> :> UnknownGender) @@ (<<"9">> :> UnknownGender)

remap_ndop_gender_column(df) ==
    LET F(r) == [r EXCEPT !.GENDER = Replace(@, gender_mappings)] IN Map(df, F)

\* ndop_clean.get_ndop_data
get_ndop_data(table, start, end) ==
    LET cleaned == clean_nhs_numbers(sql_get_ndop_data(table, start, end),
                                     ndop_columns)
    IN IF cleaned.raises # "none" THEN cleaned
       ELSE [raises |-> "none",
             df |-> remap_ndop_gender_column(
                      remap_ndop_age_column(
                        remove_practice_code_whitespace(cleaned.df)))]

-----------------------------------------------------------------------------
(* Temporal record resolver: ndop_aggregate *)

\* mutant: a death on the date itself still counts as living
filter_living_patients_on_or_after(df, date) ==
    LET P(r) == isnat(r.DATE_OF_DEATH) \/ DateGE(r.DATE_OF_DEATH, date)
    IN Filter(df, P)

filter_living_patients(df, date) ==
    LET P(r) == isnat(r.DATE_OF_DEATH) \/ DateGT(r.DATE_OF_DEATH, date)
    IN Filter(df, P)

\* mutant: a death on the date itself is not yet a death
filter_deceased_patients_before(df, date) ==
    LET P(r) == DateLT(r.DATE_OF_DEATH, date) IN Filter(df, P)

filter_deceased_patients(df, date) ==
    LET P(r) == DateLE(r.DATE_OF_DEATH, date) IN Filter(df, P)

\* groupby(NHS_Number)[Record_Start_Date].rank(method="first", ascending=False):
\* 0 stands for the missing rank of a row with no group or no start date
RowNum(df, i) ==
    IF isna(df[i].NHS_Number) \/ isnat(df[i].Record_Start_Date) THEN 0
    ELSE LET group == {j \in 1..Len(df) : df[j].NHS_Number = df[i].NHS_Number}
         IN 1 + Cardinality({j \in group :
                    DateGT(df[j].Record_Start_Date, df[i].Record_Start_Date)})
              + Cardinality({j \in group :
                    j < i /\ df[j].Record_Start_Date = df[i].Record_Start_Date})

\* mutant: rank(method="min"), records that share the latest start are all kept
retrieve_most_recent_record_ties(df) ==
    LET Latest(i) ==
            /\ ~isna(df[i].NHS_Number) /\ ~isnat(df[i].Record_Start_Date)
            /\ \A j \in 1..Len(df) :
                  df[j].NHS_Number = df[i].NHS_Number =>
                      ~DateGT(df[j].Record_Start_Date, df[i].Record_Start_Date)
        kept == Ascending({i \in 1..Len(df) : Latest(i)})
    IN [k \in 1..Len(kept) |-> df[kept[k]]] \o <<>>

\* mutant: rank(ascending=True), the oldest record is kept
retrieve_oldest_record(df) ==
    LET Oldest(i) ==
            /\ ~isna(df[i].NHS_Number) /\ ~isnat(df[i].Record_Start_Date)
            /\ \A j \in 1..Len(df) :
                  df[j].NHS_Number = df[i].NHS_Number =>
                      /\ ~DateLT(df[j].Record_Start_Date, df[i].Record_Start_Date)
                      /\ (j < i => df[j].Record_Start_Date # df[i].Record_Start_Date)
        kept == Ascending({i \in 1..Len(df) : Oldest(i)})
    IN [k \in 1..Len(kept) |-> df[kept[k]]] \o <<>>

\* mutant: of the records that share the latest start, the last is kept
retrieve_most_recent_record_last(df) ==
    LET Last(i) ==
            /\ ~isna(df[i].NHS_Number) /\ ~isnat(df[i].Record_Start_Date)
            /\ \A j \in 1..Len(df) :
                  df[j].NHS_Number = df[i].NHS_Number =>
                      /\ ~DateGT(df[j].Record_Start_Date, df[i].Record_Start_Date)
                      /\ (j > i => df[j].Record_Start_Date # df[i].Record_Start_Date)
        kept == Ascending({i \in 1..Len(df) : Last(i)})
    IN [k \in 1..Len(kept) |-> df[kept[k]]] \o <<>>

retrieve_most_recent_record(df) ==
    LET kept == Ascending({i \in 1..Len(df) : RowNum(df, i) = 1})
    IN [k \in 1..Len(kept) |-> df[kept[k]]] \o <<>>

\* mutant: a record that starts on the date is not active yet
slice_ndop_by_month_exclusive(df, date) ==
    LET P(r) == /\ DateLT(r.Record_Start_Date, date)
                /\ (DateGE(r.Record_End_Date, date) \/ isnat(r.Record_End_Date))
        Tag(r) == [c \in DOMAIN r \cup {"ACH_DATE"} |->
                      IF c = "ACH_DATE" THEN date ELSE r[c]]
    IN Map(Filter(df, P), Tag)

slice_ndop_by_month(df, date) ==
    LET P(r) == /\ DateLE(r.Record_Start_Date, date)
                /\ (DateGE(r.Record_End_Date, date) \/ isnat(r.Record_End_Date))
        Tag(r) == [c \in DOMAIN r \cup {"ACH_DATE"} |->
                      IF c = "ACH_DATE" THEN date ELSE r[c]]
    IN Map(Filter(df, P), Tag)

process_active_ndop_records(df, date) ==
    retrieve_most_recent_record(
      filter_living_patients(slice_ndop_by_month(df, date), date))

\* mutant: the deceased are resolved over all the records, not over the slice
\* of the date
process_deceased_ndop_records_unsliced(df, date) ==
    LET Tag(r) == [c \in DOMAIN r \cup {"ACH_DATE"} |->
                      IF c = "ACH_DATE" THEN date ELSE r[c]]
    IN retrieve_most_recent_record(filter_deceased_patients(Map(df, Tag), date))

process_deceased_ndop_records(df, date) ==
    retrieve_most_recent_record(
      filter_deceased_patients(slice_ndop_by_month(df, date), date))

-----------------------------------------------------------------------------
(* Demographic aggregator: age_gen_csv, list_size *)

NDOP_MEASURES ==
    << <<"ACH_DATE", "AGE_BAND", "GENDER">>,
       <<"ACH_DATE", "GENDER">>,
       <<"ACH_DATE", "AGE_BAND">>,
       <<"ACH_DATE">> >>

NDOP_DECEASED_MEASURES == << <<"ACH_DATE", "GENDER">>, <<"ACH_DATE">> >>

ColLT(col, a, b) == IF col = "ACH_DATE" THEN DateLT(a, b) ELSE StrLT(a, b)

\* order of two group keys of the same measures (groupby sorts its keys)
KeyLT(measures, k1, k2) ==
    \E i \in 1..Len(measures) :
        /\ \A j \in 1..(i - 1) : k1[j] = k2[j]
        /\ ColLT(measures[i], k1[i], k2[i])

GroupKey(r, measures) == [i \in 1..Len(measures) |-> r[measures[i]]]

\* groupby drops the rows with a missing value in a key column (dropna=True)
HasGroup(r, measures) ==
    \A i \in 1..Len(measures) : measures[i] = "ACH_DATE" \/ ~isna(r[measures[i]])

\* the sorted group keys of df
GroupKeys(df, measures) ==
    LET LT(k1, k2) == KeyLT(measures, k1, k2)
    IN SortedSeq({GroupKey(df[i], measures) :
                     i \in {j \in 1..Len(df) : HasGroup(df[j], measures)}}, LT)

GroupRows(df, measures, key) ==
    {i \in 1..Len(df) : HasGroup(df[i], measures) /\ GroupKey(df[i], measures) = key}

\* mutant: a column that is not grouped is always filled with "All"
KeyColFilledWithAll(measures, key, col, fill_value) ==
    IF col \in Range(measures)
    THEN key[CHOOSE i \in 1..Len(measures) : measures[i] = col]
    ELSE All

KeyCol(measures, key, col, fill_value) ==
    IF col \in Range(measures)
    THEN key[CHOOSE i \in 1..Len(measures) : measures[i] = col]
    ELSE fill_value

\* groupby(measures)["NHS_Number"].count(), then add_age_or_gender_columns
aggregate_ndop_by_measure(df, measures, fill_value) ==
    LET keys == GroupKeys(df, measures)
        Row(key) ==
            [ACH_DATE |-> KeyCol(measures, key, "ACH_DATE", fill_value),
             AGE_BAND |-> KeyCol(measures, key, "AGE_BAND", fill_value),
             GENDER |-> KeyCol(measures, key, "GENDER", fill_value),
             OPT_OUT |-> Cardinality({i \in GroupRows(df, measures, key) :
                                         ~isna(df[i].NHS_Number)})]
    IN Map(keys, Row)

create_df_list_for_age_gen_csv(df, measure_groups, fill_value) ==
    [m \in 1..Len(measure_groups) |->
        aggregate_ndop_by_measure(df, measure_groups[m], fill_value)]

age_gen_list_size_measure_groups ==
    << <<"ACH_DATE">>,
       <<"ACH_DATE", "AGE_BAND", "GENDER">>,
       <<"ACH_DATE", "AGE_BAND">>,
       <<"ACH_DATE", "GENDER">> >>

\* groupby(measure)["LIST_SIZE"].sum(); a column that is not grouped is
\* missing from the frame and NaN once the frames are concatenated
aggregate_list_size_by_measure(df, measure) ==
    LET keys == GroupKeys(df, measure)
        Row(key) ==
            [ACH_DATE |-> KeyCol(measure, key, "ACH_DATE", NaN),
             AGE_BAND |-> KeyCol(measure, key, "AGE_BAND", NaN),
             GENDER |-> KeyCol(measure, key, "GENDER", NaN),
             LIST_SIZE |-> SumSeq([n \in 1..Len(df) |->
                                     IF n \in GroupRows(df, measure, key)
                                     THEN df[n].LIST_SIZE ELSE 0])]
    IN Map(keys, Row)

remap_age_band(df) ==
    LET F(r) == [r EXCEPT !.AGE_BAND = StrReplaceChar(@, "_", "-")] IN Map(df, F)

remap_gender_column(df) ==
    LET F(r) == [r EXCEPT !.GENDER = StrCapitalize(@)] IN Map(df, F)

\* mutant: the list sizes are aggregated by age band and gender only
list_size_by_age_and_gender_only(df) ==
    LET F(r) == [r EXCEPT !.AGE_BAND = fillna(@, All), !.GENDER = fillna(@, All)]
    IN Map(remap_gender_column(remap_age_band(
             aggregate_list_size_by_measure(df, <<"ACH_DATE", "AGE_BAND", "GENDER">>))), F)

list_size_for_age_gen_csv(df) ==
    LET list_size_dfs == [m \in 1..Len(age_gen_list_size_measure_groups) |->
            aggregate_list_size_by_measure(df, age_gen_list_size_measure_groups[m])]
        F(r) == [r EXCEPT !.AGE_BAND = fillna(@, All), !.GENDER = fillna(@, All)]
    IN Map(remap_gender_column(remap_age_band(Flatten(list_size_dfs))), F)

-----------------------------------------------------------------------------
(* Rate calculator and normaliser: age_gen_csv.create_age_gen_csv *)

\* A float is <<"fin", n, d>> (the quotient n / d, d > 0), <<"inf", 1, 0>> or
\* <<"nan", 0, 0>>; rounding to the nearest double is not modelled.
Fin(n, d) == <<"fin", n, d>>
Inf == <<"inf", 1, 0>>
NaNF == <<"nan", 0, 0>>

\* mutant: how="inner", a numerator row without a list size is dropped
merge_inner(left, right) ==
    LET Match(l) == {j \in 1..Len(right) :
                        /\ right[j].ACH_DATE = l.ACH_DATE
                        /\ right[j].AGE_BAND = l.AGE_BAND
                        /\ right[j].GENDER = l.GENDER}
        With(l, size) == [ACH_DATE |-> l.ACH_DATE, AGE_BAND |-> l.AGE_BAND,
                          GENDER |-> l.GENDER, OPT_OUT |-> l.OPT_OUT,
                          LIST_SIZE |-> size]
        Rows(l) == LET js == SortedSeq(Match(l), IntLT)
                   IN [k \in 1..Len(js) |-> With(l, Fin(right[js[k]].LIST_SIZE, 1))]
    IN Flatten([i \in 1..Len(left) |-> Rows(left[i])])

\* left.merge(right, on=[ACH_DATE, AGE_BAND, GENDER], how="left")
merge_left(left, right) ==
    LET Match(l) == {j \in 1..Len(right) :
                        /\ right[j].ACH_DATE = l.ACH_DATE
                        /\ right[j].AGE_BAND = l.AGE_BAND
                        /\ right[j].GENDER = l.GENDER}
        With(l, size) == [ACH_DATE |-> l.ACH_DATE, AGE_BAND |-> l.AGE_BAND,
                          GENDER |-> l.GENDER, OPT_OUT |-> l.OPT_OUT,
                          LIST_SIZE |-> size]
        Rows(l) == IF Match(l) = {} THEN <<With(l, NaNF)>>
                   ELSE LET js == SortedSeq(Match(l), IntLT)
                        IN [k \in 1..Len(js) |-> With(l, Fin(right[js[k]].LIST_SIZE, 1))]
    IN Flatten([i \in 1..Len(left) |-> Rows(left[i])])

\* 100 * (OPT_OUT / LIST_SIZE) in floating point
OptOutRate(opt_out, list_size) ==
    IF list_size[1] = "nan" THEN NaNF
    ELSE IF list_size[2] = 0 THEN (IF opt_out = 0 THEN NaNF ELSE Inf)
    ELSE Fin(100 * opt_out * list_size[3], list_size[2])

calculate_opt_out_rate(df) ==
    LET F(r) == [c \in DOMAIN r \cup {"OPT_OUT_RATE"} |->
                    IF c = "OPT_OUT_RATE" THEN OptOutRate(r.OPT_OUT, r.LIST_SIZE)
                    ELSE r[c]]
    IN Map(df, F)

\* replace(np.nan, 0).astype(float) and replace(np.nan, 0).astype(int)
fill_list_size_and_opt_out_nan_values(df) ==
    LET F(r) == [r EXCEPT
                    !.OPT_OUT_RATE = IF @[1] = "nan" THEN Fin(0, 1) ELSE @,
                    !.LIST_SIZE = IF @[1] = "nan" THEN 0 ELSE @[2] \div @[3]]
    IN Map(df, F)

gender_column_order == <<All, AllDeceased, Female, Male, UnknownGender>>

age_band_column_orders ==
    << <<"0", "-", "9">>, <<"1", "0", "-", "1", "9">>, <<"2", "0", "-", "2", "9">>,
       <<"3", "0", "-", "3", "9">>, <<"4", "0", "-", "4", "9">>,
       <<"5", "0", "-", "5", "9">>, <<"6", "0", "-", "6", "9">>,
       <<"7", "0", "-", "7", "9">>, <<"8", "0", "-", "8", "9">>,
       <<"9", "0", "+">>, All, Unknown, AllDeceased >>

\* astype(CategoricalDtype(categories)): a value that is no category is NaN
AsCategory(v, categories) == IF v \in Range(categories) THEN v ELSE NaN

convert_gender_column_to_categorical(df) ==
    LET F(r) == [r EXCEPT !.GENDER = AsCategory(@, gender_column_order)]
    IN Map(df, F)

convert_age_column_to_categorical(df) ==
    LET F(r) == [r EXCEPT !.AGE_BAND = AsCategory(@, age_band_column_orders)]
    IN Map(df, F)

\* mutant: every row of unknown gender is dropped, the totals too
suppress_all_unknown_gender_rows(df) ==
    LET Keep(r) == r.GENDER # UnknownGender IN Filter(df, Keep)

suppress_unknown_undisclosed_gender_rows(df) ==
    LET Keep(r) == ~(/\ r.GENDER = UnknownGender
                     /\ r.AGE_BAND \notin {All, AllDeceased})
    IN Filter(df, Keep)

\* the code of a categorical value; NaN sorts last
CatCode(v, categories) ==
    IF v \in Range(categories)
    THEN CHOOSE i \in 1..Len(categories) : categories[i] = v
    ELSE Len(categories) + 1

\* the sort keys of a row: the date and the codes of the two categoricals
AgeGenSortKey(r) ==
    <<r.ACH_DATE, CatCode(r.GENDER, gender_column_order),
      CatCode(r.AGE_BAND, age_band_column_orders)>>

\* mutant: ascending=[True, True, True]
AgeGenKeyLTAscending(a, b) ==
    \/ DateLT(a[1], b[1])
    \/ a[1] = b[1] /\ a[2] < b[2]
    \/ a[1] = b[1] /\ a[2] = b[2] /\ a[3] < b[3]

\* ascending=[False, True, True]
AgeGenKeyLT(a, b) ==
    \/ DateGT(a[1], b[1])
    \/ a[1] = b[1] /\ a[2] < b[2]
    \/ a[1] = b[1] /\ a[2] = b[2] /\ a[3] < b[3]

\* sort_values(["ACH_DATE", "GENDER", "AGE_BAND"], ascending=[False, True, True])
sort_age_gen_values(df) == StableSortBy(df, AgeGenSortKey, AgeGenKeyLT)

\* utils.format_publication_date
format_publication_date_column(df) ==
    LET F(r) == [r EXCEPT !.ACH_DATE = format_publication_date(@)] IN Map(df, F)

\* pd.concat([*ndop_dfs, *ndop_deceased_dfs]): the numerator rows
age_gen_numerators(living, deceased) ==
    LET ndop_dfs == create_df_list_for_age_gen_csv(living, NDOP_MEASURES, All)
        ndop_deceased_dfs == create_df_list_for_age_gen_csv(
                                deceased, NDOP_DECEASED_MEASURES, AllDeceased)
    IN Flatten(ndop_dfs) \o Flatten(ndop_deceased_dfs)

\* the numerators joined to the list sizes, with the rate, before the
\* categoricals and the suppression
age_gen_joined(living, deceased, list_size) ==
    fill_list_size_and_opt_out_nan_values(
      calculate_opt_out_rate(
        merge_left(age_gen_numerators(living, deceased),
                   list_size_for_age_gen_csv(list_size))))

\* the table of create_age_gen_csv before the date is formatted
age_gen_sorted(living, deceased, list_size) ==
    sort_age_gen_values(
      suppress_unknown_undisclosed_gender_rows(
        convert_age_column_to_categorical(
          convert_gender_column_to_categorical(
            age_gen_joined(living, deceased, list_size)))))

create_age_gen_csv(living, deceased, list_size) ==
    format_publication_date_column(age_gen_sorted(living, deceased, list_size))

-----------------------------------------------------------------------------
(* Geography tables: reg_geog_csv, res_geo_csv, table_3, table_4 *)

\* groupby(cols).agg({c: "sum" for c in sums}).reset_index(): the groups in
\* key order
GroupBySum(df, cols, sums) ==
    LET keys == GroupKeys(df, cols)
        Total(key, c) ==
            SumSeq([n \in 1..Len(df) |->
                      IF n \in GroupRows(df, cols, key) THEN df[n][c] ELSE 0])
    IN [k \in 1..Len(keys) |->
          [c \in Range(cols) \cup sums |->
              IF c \in sums THEN Total(keys[k], c)
              ELSE keys[k][CHOOSE i \in 1..Len(cols) : cols[i] = c]]] \o <<>>

\* ndop_aggregate.aggregate_ndop_by_practice (rename_col = "OPT_OUT")
aggregate_ndop_by_practice(ndop) ==
    LET cols == <<"ACH_DATE", "GP_PRACTICE">>
        keys == GroupKeys(ndop, cols)
    IN [k \in 1..Len(keys) |->
          [ACH_DATE |-> keys[k][1], GP_PRACTICE |-> keys[k][2],
           OPT_OUT |-> Cardinality({i \in GroupRows(ndop, cols, keys[k]) :
                                       ~isna(ndop[i].NHS_Number)})]] \o <<>>

\* the columns of the active-practice reference that follow the practice code
practice_geography_columns ==
    <<"PRACTICE_NAME", "POSTCODE", "SUB_ICB_LOCATION_CODE",
      "ONS_SUB_ICB_LOCATION_CODE", "SUB_ICB_LOCATION_NAME", "ONS_ICB_CODE",
      "ICB_CODE", "ICB_NAME", "COMM_REGION_CODE", "ONS_COMM_REGION_CODE",
      "COMM_REGION_NAME">>

list_size_for_reg_geog_csv(df) ==
    GroupBySum(df, <<"ACH_DATE", "GP_PRACTICE">> \o practice_geography_columns,
               {"LIST_SIZE"})

\* merge(how="outer") on ACH_DATE and GP_PRACTICE, the keys in sorted order,
\* then fillna(0) of OPT_OUT and LIST_SIZE
merge_registered_ndop_with_list_size(ndop, list_size) ==
    LET left == aggregate_ndop_by_practice(ndop)
        right == list_size_for_reg_geog_csv(list_size)
        KeyOf(r) == <<r.ACH_DATE, r.GP_PRACTICE>>
        LT(k1, k2) == KeyLT(<<"ACH_DATE", "GP_PRACTICE">>, k1, k2)
        keys == SortedSeq({KeyOf(left[i]) : i \in 1..Len(left)}
                          \cup {KeyOf(right[j]) : j \in 1..Len(right)}, LT)
        L(key) == Ascending({i \in 1..Len(left) : KeyOf(left[i]) = key})
        R(key) == Ascending({j \in 1..Len(right) : KeyOf(right[j]) = key})
        LeftOnly(l) ==
            [c \in DOMAIN l \cup Range(practice_geography_columns) \cup {"LIST_SIZE"} |->
                IF c \in DOMAIN l THEN l[c]
                ELSE IF c = "LIST_SIZE" THEN 0 ELSE NaN]
        Pair(l, r) == [c \in DOMAIN r \cup {"OPT_OUT"} |->
                          IF c = "OPT_OUT" THEN l.OPT_OUT ELSE r[c]]
        RightOnly(r) == [c \in DOMAIN r \cup {"OPT_OUT"} |->
                            IF c = "OPT_OUT" THEN 0 ELSE r[c]]
        Rows(key) ==
            IF R(key) = <<>> THEN [i \in 1..Len(L(key)) |-> LeftOnly(left[L(key)[i]])]
            ELSE IF L(key) = <<>>
                 THEN [j \in 1..Len(R(key)) |-> RightOnly(right[R(key)[j]])]
            ELSE Flatten([i \in 1..Len(L(key)) |->
                           [j \in 1..Len(R(key)) |->
                               Pair(left[L(key)[i]], right[R(key)[j]])]])
    IN Flatten([k \in 1..Len(keys) |-> Rows(keys[k]) \o <<>>])

process_records_with_empty_postcode(df) ==
    LET F(r) == [c \in DOMAIN r |->
                    IF isna(r.POSTCODE) /\ c = "GP_PRACTICE" THEN Unallocated
                    ELSE IF isna(r.POSTCODE) /\ c = "LIST_SIZE" THEN 0
                    ELSE IF c \in {"OPT_OUT", "LIST_SIZE"} THEN r[c]
                    ELSE IF r[c] = NaN THEN Unallocated
                    ELSE r[c]]
    IN Map(df, F)

\* descending ACH_DATE, then ascending code
DateDescThenCodeLT(a, b) ==
    \/ DateGT(a[1], b[1])
    \/ a[1] = b[1] /\ StrLT(a[2], b[2])

groupby_all_categorical_columns_key(r) == <<r.ACH_DATE, r.GP_PRACTICE>>

groupby_all_categorical_columns(df) ==
    StableSortBy(
        GroupBySum(df, <<"ACH_DATE", "GP_PRACTICE", "POSTCODE", "PRACTICE_NAME",
                         "SUB_ICB_LOCATION_CODE", "ONS_SUB_ICB_LOCATION_CODE",
                         "SUB_ICB_LOCATION_NAME", "ONS_ICB_CODE", "ICB_CODE",
                         "ICB_NAME", "COMM_REGION_CODE", "ONS_COMM_REGION_CODE",
                         "COMM_REGION_NAME">>, {"OPT_OUT", "LIST_SIZE"}),
        groupby_all_categorical_columns_key, DateDescThenCodeLT)

create_reg_geo_csv(ndop, list_size) ==
    format_publication_date_column(
      groupby_all_categorical_columns(
        process_records_with_empty_postcode(
          merge_registered_ndop_with_list_size(ndop, list_size))))

\* ndop_aggregate.aggregate_ndop_by_lsoa
aggregate_ndop_by_lsoa(ndop) ==
    LET cols == <<"ACH_DATE", "LSOA_CODE">>
        keys == GroupKeys(ndop, cols)
    IN [k \in 1..Len(keys) |->
          [ACH_DATE |-> keys[k][1], LSOA_CODE |-> keys[k][2],
           OPT_OUT |-> Cardinality({i \in GroupRows(ndop, cols, keys[k]) :
                                       ~isna(ndop[i].NHS_Number)})]] \o <<>>

lsoa_columns ==
    <<"LSOA_NAME", "ONS_SUB_ICB_LOCATION_CODE", "SUB_ICB_LOCATION_CODE",
      "SUB_ICB_LOCATION_NAME", "LA_CODE", "LA_NAME">>

\* mutant: how="inner", the counts of a code the workbook lacks are dropped
join_lsoa_ndop_counts_inner(ndop_counts, lsoa) ==
    LET Match(l) == Ascending({j \in 1..Len(lsoa) : lsoa[j].LSOA_CODE = l.LSOA_CODE})
        With(l, r) == [c \in DOMAIN l \cup Range(lsoa_columns) |->
                          IF c \in DOMAIN l THEN l[c] ELSE r[c]]
        Rows(l) == [k \in 1..Len(Match(l)) |-> With(l, lsoa[Match(l)[k]])]
    IN Flatten([i \in 1..Len(ndop_counts) |-> Rows(ndop_counts[i]) \o <<>>])

\* merge(lsoa_df, on="LSOA_CODE", how="left")
join_lsoa_ndop_counts_with_geogs(ndop_counts, lsoa) ==
    LET Match(l) == Ascending({j \in 1..Len(lsoa) : lsoa[j].LSOA_CODE = l.LSOA_CODE})
        With(l, r) == [c \in DOMAIN l \cup Range(lsoa_columns) |->
                          IF c \in DOMAIN l THEN l[c] ELSE r[c]]
        Missing == [c \in Range(lsoa_columns) |-> NaN]
        Rows(l) == IF Match(l) = <<>> THEN <<With(l, Missing)>>
                   ELSE [k \in 1..Len(Match(l)) |-> With(l, lsoa[Match(l)[k]])]
    IN Flatten([i \in 1..Len(ndop_counts) |-> Rows(ndop_counts[i]) \o <<>>])

replace_invalid_lsoa_with_unallocated(df) ==
    LET F(r) == [c \in DOMAIN r |->
                    IF isna(r.LSOA_NAME) /\ c = "LSOA_CODE" THEN Unallocated
                    ELSE IF c = "OPT_OUT" THEN r[c]
                    ELSE IF r[c] = NaN THEN Unallocated
                    ELSE r[c]]
    IN Map(df, F)

create_res_geo_csv_key(r) == <<r.ACH_DATE, r.LSOA_CODE>>

create_res_geo_csv(ndop, lsoa) ==
    StableSortBy(
        GroupBySum(
            replace_invalid_lsoa_with_unallocated(
                join_lsoa_ndop_counts_with_geogs(aggregate_ndop_by_lsoa(ndop), lsoa)),
            <<"ACH_DATE", "LSOA_CODE", "LSOA_NAME", "SUB_ICB_LOCATION_CODE",
              "ONS_SUB_ICB_LOCATION_CODE", "SUB_ICB_LOCATION_NAME", "LA_CODE",
              "LA_NAME">>, {"OPT_OUT"}),
        create_res_geo_csv_key, DateDescThenCodeLT)

\* utils.calculate_opt_out_rate: "Opt-out Rate" = 100 * (OPT_OUT / LIST_SIZE)
utils_calculate_opt_out_rate(df) ==
    LET F(r) == [c \in DOMAIN r \cup {"Opt-out Rate"} |->
                    IF c = "Opt-out Rate"
                    THEN OptOutRate(r.OPT_OUT, Fin(r.LIST_SIZE, 1))
                    ELSE r[c]]
    IN Map(df, F)

Dash == <<"-">>
LowerZ == <<"z">>

\* table_3.reorder_practices: the practices with opt-outs, the practices
\* without (their count shown as "-"), the unallocated row (an infinite rate
\* shown as "z")
reorder_practices(df) ==
    LET Standard(r) == r.OPT_OUT > 0 /\ r.PRACTICE_NAME # Unallocated
        Zero(r) == r.OPT_OUT = 0
        Unalloc(r) == r.PRACTICE_NAME = Unallocated
        ToDash(r) == [r EXCEPT !.OPT_OUT = Dash]
        ToZ(r) == [r EXCEPT !["Opt-out Rate"] = IF @ = Inf THEN LowerZ ELSE @]
    IN Filter(df, Standard) \o Map(Filter(df, Zero), ToDash)
       \o Map(Filter(df, Unalloc), ToZ)

create_table_3_df_key(r) == r.GP_PRACTICE

table_3_row(r) ==
    [c \in {"Practice code", "Practice name", "Opt-out", "List size", "Opt-out Rate"} |->
        CASE c = "Practice code" -> r.GP_PRACTICE
          [] c = "Practice name" -> r.PRACTICE_NAME
          [] c = "Opt-out" -> r.OPT_OUT
          [] c = "List size" -> r.LIST_SIZE
          [] OTHER -> r["Opt-out Rate"]]

create_table_3_df(df, end) ==
    LET sorted == StableSortBy(
                      utils_calculate_opt_out_rate(filter_data_to_current_month(df, end)),
                      create_table_3_df_key, StrLT)
    IN Map(reorder_practices(sorted), table_3_row)

\* table_4.filter_patients_for_current_month
filter_patients_for_current_month(df, end) ==
    LET P(r) == r.ACH_DATE = end IN Filter(df, P)

\* table_4.preprocess_deceased_pats_for_table_4: the deceased of the current
\* month counted by practice
preprocess_deceased_pats_for_table_4(df, end) ==
    LET counts == aggregate_ndop_by_practice(filter_patients_for_current_month(df, end))
        F(r) == [GP_PRACTICE |-> r.GP_PRACTICE, Deceased |-> r.OPT_OUT]
    IN Map(counts, F)

\* merge(on="GP_PRACTICE", how="outer").  The counts of the merged table are
\* floats: <<"fin", n, 1>>, or NaN where the merge found no row on that side.
merge_deceased_by_practice(left, right) ==
    LET keys == SortedSeq({left[i].GP_PRACTICE : i \in 1..Len(left)}
                          \cup {right[j].GP_PRACTICE : j \in 1..Len(right)}, StrLT)
        L(key) == Ascending({i \in 1..Len(left) : left[i].GP_PRACTICE = key})
        R(key) == Ascending({j \in 1..Len(right) : right[j].GP_PRACTICE = key})
        Pair(l, d) == [c \in DOMAIN l \cup {"Deceased"} |->
                          IF c = "Deceased" THEN d
                          ELSE IF c \in {"OPT_OUT", "LIST_SIZE"} THEN Fin(l[c], 1)
                          ELSE l[c]]
        RightOnly(r) ==
            [c \in {"ACH_DATE", "GP_PRACTICE", "OPT_OUT", "LIST_SIZE", "Deceased"}
                   \cup Range(practice_geography_columns) |->
                CASE c = "GP_PRACTICE" -> r.GP_PRACTICE
                  [] c = "Deceased" -> Fin(r.Deceased, 1)
                  [] c \in {"OPT_OUT", "LIST_SIZE"} -> NaNF
                  [] OTHER -> NaN]
        Rows(key) ==
            IF R(key) = <<>> THEN [i \in 1..Len(L(key)) |-> Pair(left[L(key)[i]], NaNF)]
            ELSE IF L(key) = <<>>
                 THEN [j \in 1..Len(R(key)) |-> RightOnly(right[R(key)[j]])]
            ELSE Flatten([i \in 1..Len(L(key)) |->
                           [j \in 1..Len(R(key)) |->
                               Pair(left[L(key)[i]], Fin(right[R(key)[j]].Deceased, 1))]])
    IN Flatten([k \in 1..Len(keys) |-> Rows(keys[k]) \o <<>>])

map_unallocated_gp_practice(df) ==
    LET F(r) == [r EXCEPT !.GP_PRACTICE =
                    IF isna(r.SUB_ICB_LOCATION_CODE) THEN Unallocated ELSE @]
    IN Map(df, F)

fill_blank_geography_columns(df) ==
    LET columns == {"SUB_ICB_LOCATION_CODE", "ONS_SUB_ICB_LOCATION_CODE",
                    "SUB_ICB_LOCATION_NAME"}
        F(r) == [c \in DOMAIN r |->
                    IF c \in columns /\ r[c] = NaN THEN Unallocated ELSE r[c]]
    IN Map(df, F)

\* groupby(...).agg(sum): the sum of a group skips the missing counts, and a
\* group of missing counts only sums to 0; the sums are whole numbers
group_ndop_list_size_by_sub_icb(df) ==
    LET cols == <<"SUB_ICB_LOCATION_CODE", "ONS_SUB_ICB_LOCATION_CODE",
                  "SUB_ICB_LOCATION_NAME">>
        sums == {"OPT_OUT", "LIST_SIZE", "Deceased"}
        keys == GroupKeys(df, cols)
        Total(key, c) ==
            SumSeq([n \in 1..Len(df) |->
                      IF n \in GroupRows(df, cols, key) /\ df[n][c] # NaNF
                      THEN df[n][c][2] ELSE 0])
    IN [k \in 1..Len(keys) |->
          [c \in Range(cols) \cup sums |->
              IF c \in sums THEN Total(keys[k], c)
              ELSE keys[k][CHOOSE i \in 1..Len(cols) : cols[i] = c]]] \o <<>>

\* fillna("z"): a missing rate only, an infinite rate is no missing value
replace_empty_opt_out_rate_with_z(df) ==
    LET F(r) == [r EXCEPT !["Opt-out Rate"] = IF @ = NaNF THEN LowerZ ELSE @]
    IN Map(df, F)

table_4_row(r) ==
    [c \in {"ONS code", "Code", "Name", "Opt-out", "List size", "Opt-out Rate",
            "Deceased"} |->
        CASE c = "ONS code" -> r.ONS_SUB_ICB_LOCATION_CODE
          [] c = "Code" -> r.SUB_ICB_LOCATION_CODE
          [] c = "Name" -> r.SUB_ICB_LOCATION_NAME
          [] c = "Opt-out" -> r.OPT_OUT
          [] c = "List size" -> r.LIST_SIZE
          [] c = "Deceased" -> r.Deceased
          [] OTHER -> r["Opt-out Rate"]]

create_table_4_df(reg_csv_df, ndop_deceased_df, end) ==
    LET ndop_deceased_current_month_df ==
            preprocess_deceased_pats_for_table_4(ndop_deceased_df, end)
        ndop_current_month_df == filter_data_to_current_month(reg_csv_df, end)
    IN Map(replace_empty_opt_out_rate_with_z(
             utils_calculate_opt_out_rate(
               group_ndop_list_size_by_sub_icb(
                 fill_blank_geography_columns(
                   map_unallocated_gp_practice(
                     merge_deceased_by_practice(ndop_current_month_df,
                                                ndop_deceased_current_month_df)))))),
           table_4_row)

-----------------------------------------------------------------------------
(* The run: main.py *)

months == get_reporting_months_list(start_date, end_date)

\* main.py:21, reportDates.__post_init__
MakeReportDates ==
    /\ pc = "start"
    /\ start_date' = get_report_period_start_date(end_date, reporting_period)
    /\ pc' = "report_dates"
    /\ UNCHANGED <<end_date, reporting_period, sql_ndop, gp_patient_list,
                   fault, list_size_df, lsoa_df, ndop_df, ndop_monthly_dfs,
                   ndop_concat_df, ndop_deceased_concat_df, ndop_age_gen_csv,
                   ndop_reg_geo_csv, ndop_res_geo_csv, table_3_df,
                   table_4_df, outputs_folder>>

\* a row of ODS_PRACTICE_V02: one record version of a practice
OdsPracticeRow(code, postcode, commissioner, open, close, record_start, record_end) ==
    [CODE |-> code, NAME |-> <<"P">> \o code, POSTCODE |-> postcode,
     COMMISSIONER_ORGANISATION_CODE |-> commissioner,
     HIGH_LEVEL_HEALTH_GEOGRAPHY |-> <<"Q", "1">>,
     NATIONAL_GROUPING |-> <<"Y", "1">>,
     OPEN_DATE |-> open, CLOSE_DATE |-> close,
     DSS_RECORD_START_DATE |-> record_start, DSS_RECORD_END_DATE |-> record_end]

\* the table ODS_PRACTICE_V02 that get_active_practices reads: A1 with a
\* record version that ended in 2020 and the current one, C3, D4 with a
\* commissioner code that ONS_CHD_GEO_EQUIVALENTS lacks, E5 without a
\* postcode, F6 closed in 2021 and G7 that opens in 2023
ODS_PRACTICE_V02 ==
    <<OdsPracticeRow(<<"A", "1">>, <<"L", "0">>, <<"S", "2">>,
                     <<2000, 1, 1>>, NaT, <<2000, 1, 1>>, <<2020, 12, 31>>),
      OdsPracticeRow(<<"A", "1">>, <<"L", "1">>, <<"S", "1">>,
                     <<2000, 1, 1>>, NaT, <<2021, 1, 1>>, NaT),
      OdsPracticeRow(<<"C", "3">>, <<"L", "3">>, <<"S", "2">>,
                     <<2000, 1, 1>>, NaT, <<2000, 1, 1>>, NaT),
      OdsPracticeRow(<<"D", "4">>, <<"L", "4">>, <<"S", "9">>,
                     <<2000, 1, 1>>, NaT, <<2000, 1, 1>>, NaT),
      OdsPracticeRow(<<"E", "5">>, NaN, <<"S", "1">>,
                     <<2000, 1, 1>>, NaT, <<2000, 1, 1>>, NaT),
      OdsPracticeRow(<<"F", "6">>, <<"L", "6">>, <<"S", "1">>,
                     <<2000, 1, 1>>, <<2021, 12, 31>>, <<2000, 1, 1>>, NaT),
      OdsPracticeRow(<<"G", "7">>, <<"L", "7">>, <<"S", "1">>,
                     <<2023, 1, 1>>, NaT, <<2023, 1, 1>>, NaT)>>

GeoEquivalentRow(date, code, name, ons) ==
    [DATE_OF_OPERATION |-> date, DH_GEOGRAPHY_CODE |-> code,
     DH_GEOGRAPHY_NAME |-> name, GEOGRAPHY_CODE |-> ons]

\* the table ONS_CHD_GEO_EQUIVALENTS: S1 renamed in 2020, S2 to be renamed in
\* 2023, the ICB Q1 and the region Y1
ONS_CHD_GEO_EQUIVALENTS ==
    <<GeoEquivalentRow(<<2010, 4, 1>>, <<"S", "1">>, <<"N", "0">>, <<"E", "0">>),
      GeoEquivalentRow(<<2020, 4, 1>>, <<"S", "1">>, <<"N", "1">>, <<"E", "1">>),
      GeoEquivalentRow(<<2010, 4, 1>>, <<"S", "2">>, <<"N", "2">>, <<"E", "2">>),
      GeoEquivalentRow(<<2023, 4, 1>>, <<"S", "2">>, <<"N", "3">>, <<"E", "3">>),
      GeoEquivalentRow(<<2010, 4, 1>>, <<"Q", "1">>, <<"I", "1">>, <<"E", "5">>),
      GeoEquivalentRow(<<2010, 4, 1>>, <<"Y", "1">>, <<"R", "1">>, <<"E", "9">>)>>

\* ingest_icb.corporate_reference_mapping: SELECT DISTINCT of the rows whose
\* DATE_OF_OPERATION is the latest of their DH_GEOGRAPHY_CODE among the dates
\* up to report_date (the INNER JOIN on the MAX of the GROUP BY)
corporate_reference_mapping(report_date) ==
    LET a == ONS_CHD_GEO_EQUIVALENTS
        InForce(r) == DateLE(r.DATE_OF_OPERATION, report_date)
        Latest(i) ==
            /\ InForce(a[i])
            /\ \A j \in 1..Len(a) :
                  InForce(a[j]) /\ a[j].DH_GEOGRAPHY_CODE = a[i].DH_GEOGRAPHY_CODE
                      => DateLE(a[j].DATE_OF_OPERATION, a[i].DATE_OF_OPERATION)
        Distinct(i) == \A j \in 1..(i - 1) : a[j] # a[i]
        kept == Ascending({i \in 1..Len(a) : Latest(i) /\ Distinct(i)})
    IN [k \in 1..Len(kept) |-> a[kept[k]]] \o <<>>

\* ingest_icb.get_icb_mapping
get_icb_mapping(report_date) == corporate_reference_mapping(report_date)

\* list_size.merge_prac_icb_mapping: merge(how="left") of the code column of
\* geog_type with DH_GEOGRAPHY_CODE; DATE_OF_OPERATION and DH_GEOGRAPHY_CODE
\* are dropped, DH_GEOGRAPHY_NAME and GEOGRAPHY_CODE renamed.  A row whose code
\* the reference lacks keeps NaN in the two new columns; a code that the
\* reference holds more than once gives a row for each.
merge_prac_icb_mapping(to_map_df, reference_df, geog_type) ==
    LET code == geog_type \o "_CODE"
        name == geog_type \o "_NAME"
        ons == "ONS_" \o geog_type \o "_CODE"
        Match(l) == Ascending({j \in 1..Len(reference_df) :
                                  reference_df[j].DH_GEOGRAPHY_CODE = l[code]})
        With(l, n, o) == [c \in DOMAIN l \cup {name, ons} |->
                             IF c = name THEN n ELSE IF c = ons THEN o ELSE l[c]]
        Rows(l) ==
            IF Match(l) = <<>> THEN <<With(l, NaN, NaN)>>
            ELSE [k \in 1..Len(Match(l)) |->
                     With(l, reference_df[Match(l)[k]].DH_GEOGRAPHY_NAME,
                          reference_df[Match(l)[k]].GEOGRAPHY_CODE)] \o <<>>
    IN Flatten([i \in 1..Len(to_map_df) |-> Rows(to_map_df[i])])

\* list_size.get_active_practices: the record versions of ODS_PRACTICE_V02
\* that are open and in force at the date and whose code has a patient list
\* extracted at the date (a.CODE IN (SELECT DISTINCT CODE ... WHERE
\* EXTRACT_DATE = date)), in code order, stamped with the date; then the three
\* merges with the ICB mapping of the date
get_active_practices(patient_list, date) ==
    LET Open(a) ==
            /\ DateLE(a.OPEN_DATE, date)
            /\ (isnat(a.CLOSE_DATE) \/ DateGE(a.CLOSE_DATE, date))
            /\ DateLE(a.DSS_RECORD_START_DATE, date)
            /\ (isnat(a.DSS_RECORD_END_DATE) \/ DateGE(a.DSS_RECORD_END_DATE, date))
        Listed(a) == \E n \in 1..Len(patient_list) :
                        /\ patient_list[n].ACH_DATE = date
                        /\ patient_list[n].GP_PRACTICE = a.CODE
        Where(a) == Open(a) /\ Listed(a)
        Select(a) == [GP_PRACTICE |-> a.CODE, PRACTICE_NAME |-> a.NAME,
                      POSTCODE |-> a.POSTCODE,
                      SUB_ICB_LOCATION_CODE |-> a.COMMISSIONER_ORGANISATION_CODE,
                      ICB_CODE |-> a.HIGH_LEVEL_HEALTH_GEOGRAPHY,
                      COMM_REGION_CODE |-> a.NATIONAL_GROUPING,
                      ACH_DATE |-> date]
        CodeOf(r) == r.GP_PRACTICE
        active_practices_df ==
            StableSortBy(Map(Filter(ODS_PRACTICE_V02, Where), Select), CodeOf, StrLT)
        icb_mapping_df == get_icb_mapping(date)
    IN merge_prac_icb_mapping(
         merge_prac_icb_mapping(
           merge_prac_icb_mapping(active_practices_df, icb_mapping_df,
                                  "SUB_ICB_LOCATION"),
           icb_mapping_df, "ICB"),
         icb_mapping_df, "COMM_REGION")

\* list_size.find_active_practice_by_month: pd.concat of the tables of the
\* dates; it raises ValueError ("No objects to concatenate") without a date.
\* The outcome of the call is the table it returns or the exception it raises.
find_active_practice_by_month(patient_list, dates) ==
    IF dates = <<>> THEN [raises |-> "ValueError", df |-> <<>>]
    ELSE [raises |-> "none",
          df |-> Flatten([k \in 1..Len(dates) |->
                            get_active_practices(patient_list, dates[k])])]

\* list_size.get_list_size_for_report: the rows extracted between the start and
\* the end date, merged (how="inner") on GP_PRACTICE and ACH_DATE with the
\* practices active in each reporting month; the exception of
\* find_active_practice_by_month goes through
get_list_size_for_report(source, start, end) ==
    LET ndop_dates == get_reporting_months_list(start, end)
        P(r) == DateLE(start, r.ACH_DATE) /\ DateLE(r.ACH_DATE, end)
        list_size_data == Filter(source, P)
        active_practice_by_month_df == find_active_practice_by_month(source, ndop_dates)
        active == active_practice_by_month_df.df
        Match(l) == Ascending({j \in 1..Len(active) :
                                  /\ active[j].GP_PRACTICE = l.GP_PRACTICE
                                  /\ active[j].ACH_DATE = l.ACH_DATE})
        With(l, r) == [c \in DOMAIN l \cup DOMAIN r |->
                          IF c \in DOMAIN l THEN l[c] ELSE r[c]]
        Rows(l) == [k \in 1..Len(Match(l)) |-> With(l, active[Match(l)[k]])]
    IN IF active_practice_by_month_df.raises # "none"
       THEN active_practice_by_month_df
       ELSE [raises |-> "none",
             df |-> Flatten([i \in 1..Len(list_size_data) |->
                               Rows(list_size_data[i]) \o <<>>])]

\* main.py:23; a read that fails, or a window without a reporting month,
\* ends the run
PreprocessListSize ==
    /\ pc = "report_dates"
    /\ LET list_size == get_list_size_for_report(gp_patient_list, start_date, end_date)
       IN IF fault = "list_size" \/ list_size.raises # "none"
          THEN pc' = "failed" /\ UNCHANGED list_size_df
          ELSE list_size_df' = list_size.df /\ pc' = "list_size"
    /\ UNCHANGED <<end_date, reporting_period, start_date, sql_ndop,
                   gp_patient_list, fault, lsoa_df, ndop_df,
                   ndop_monthly_dfs, ndop_concat_df, ndop_deceased_concat_df,
                   ndop_age_gen_csv, ndop_reg_geo_csv, ndop_res_geo_csv,
                   table_3_df, table_4_df, outputs_folder>>

\* the LSOA mapping workbook of the inputs folder
lsoa_file ==
    <<[LSOA_CODE |-> <<"E", "0", "1">>, LSOA_NAME |-> <<"L", "A">>,
       ONS_SUB_ICB_LOCATION_CODE |-> <<"E", "1">>,
       SUB_ICB_LOCATION_CODE |-> <<"S", "1">>,
       SUB_ICB_LOCATION_NAME |-> <<"N", "1">>, LA_CODE |-> <<"D", "1">>,
       LA_NAME |-> <<"T", "1">>]>>

\* lsoa.get_lsoa_mappings
get_lsoa_mappings == lsoa_file

\* main.py:24
GetLsoaMappings ==
    /\ pc = "list_size"
    /\ IF fault = "lsoa"
       THEN pc' = "failed" /\ UNCHANGED lsoa_df
       ELSE lsoa_df' = get_lsoa_mappings /\ pc' = "lsoa"
    /\ UNCHANGED <<end_date, reporting_period, start_date, sql_ndop,
                   gp_patient_list, fault, list_size_df, ndop_df,
                   ndop_monthly_dfs, ndop_concat_df, ndop_deceased_concat_df,
                   ndop_age_gen_csv, ndop_reg_geo_csv, ndop_res_geo_csv,
                   table_3_df, table_4_df, outputs_folder>>

\* preprocess_ndop_data, lines 127-128; a read or a cleaning step that fails
\* ends the run
GetNdopData ==
    /\ pc = "lsoa"
    /\ LET ndop == get_ndop_data(sql_ndop, start_date, end_date)
       IN IF fault = "ndop" \/ ndop.raises # "none"
          THEN pc' = "failed" /\ UNCHANGED ndop_df
          ELSE ndop_df' = ndop.df /\ pc' = "ndop_df"
    /\ UNCHANGED <<end_date, reporting_period, start_date, sql_ndop,
                   gp_patient_list, fault, list_size_df, lsoa_df,
                   ndop_monthly_dfs, ndop_concat_df, ndop_deceased_concat_df,
                   ndop_age_gen_csv, ndop_reg_geo_csv, ndop_res_geo_csv,
                   table_3_df, table_4_df, outputs_folder>>

\* concatenate_ndop_monthly_records(process_active_ndop_records, ...): one
\* month of the list comprehension; pd.concat when the list is complete
\* (it raises ValueError on an empty list)
ConcatenateLiving ==
    /\ pc = "ndop_df"
    /\ IF months = <<>>
       THEN /\ pc' = "failed"
            /\ UNCHANGED <<ndop_monthly_dfs, ndop_concat_df>>
       ELSE LET date == months[Len(ndop_monthly_dfs) + 1]
                dfs == Append(ndop_monthly_dfs,
                              process_active_ndop_records(ndop_df, date))
            IN IF Len(dfs) < Len(months)
               THEN /\ ndop_monthly_dfs' = dfs
                    /\ UNCHANGED <<pc, ndop_concat_df>>
               ELSE /\ ndop_concat_df' = Flatten(dfs)
                    /\ ndop_monthly_dfs' = <<>>
                    /\ pc' = "living"
    /\ UNCHANGED <<end_date, reporting_period, start_date, sql_ndop,
                   gp_patient_list, fault, list_size_df, lsoa_df, ndop_df,
                   ndop_deceased_concat_df, ndop_age_gen_csv,
                   ndop_reg_geo_csv, ndop_res_geo_csv, table_3_df,
                   table_4_df, outputs_folder>>

\* concatenate_ndop_monthly_records(process_deceased_ndop_records, ...)
ConcatenateDeceased ==
    /\ pc = "living"
    /\ LET date == months[Len(ndop_monthly_dfs) + 1]
           dfs == Append(ndop_monthly_dfs,
                         process_deceased_ndop_records(ndop_df, date))
       IN IF Len(dfs) < Len(months)
          THEN /\ ndop_monthly_dfs' = dfs
               /\ UNCHANGED <<pc, ndop_deceased_concat_df>>
          ELSE /\ ndop_deceased_concat_df' = Flatten(dfs)
               /\ ndop_monthly_dfs' = <<>>
               /\ pc' = "preprocessed"
    /\ UNCHANGED <<end_date, reporting_period, start_date, sql_ndop,
                   gp_patient_list, fault, list_size_df, lsoa_df, ndop_df,
                   ndop_concat_df, ndop_age_gen_csv, ndop_reg_geo_csv,
                   ndop_res_geo_csv, table_3_df, table_4_df, outputs_folder>>

\* mutant: the age/gender file is written as soon as its table is made
CreateAgeGenCsvAndWrite ==
    /\ pc = "preprocessed"
    /\ ndop_age_gen_csv' =
         create_age_gen_csv(ndop_concat_df, ndop_deceased_concat_df, list_size_df)
    /\ outputs_folder' = [outputs_folder EXCEPT !["NDOP_age_gen"] = "complete"]
    /\ pc' = "age_gen"
    /\ UNCHANGED <<end_date, reporting_period, start_date, sql_ndop,
                   gp_patient_list, fault, list_size_df, lsoa_df, ndop_df,
                   ndop_monthly_dfs, ndop_concat_df, ndop_deceased_concat_df,
                   ndop_reg_geo_csv, ndop_res_geo_csv, table_3_df, table_4_df>>

\* main.py:34
CreateAgeGenCsv ==
    /\ pc = "preprocessed"
    /\ ndop_age_gen_csv' =
         create_age_gen_csv(ndop_concat_df, ndop_deceased_concat_df, list_size_df)
    /\ pc' = "age_gen"
    /\ UNCHANGED <<end_date, reporting_period, start_date, sql_ndop,
                   gp_patient_list, fault, list_size_df, lsoa_df, ndop_df,
                   ndop_monthly_dfs, ndop_concat_df, ndop_deceased_concat_df,
                   ndop_reg_geo_csv, ndop_res_geo_csv, table_3_df,
                   table_4_df, outputs_folder>>

\* main.py:41
CreateRegGeoCsv ==
    /\ pc = "age_gen"
    /\ ndop_reg_geo_csv' = create_reg_geo_csv(ndop_concat_df, list_size_df)
    /\ pc' = "reg_geo"
    /\ UNCHANGED <<end_date, reporting_period, start_date, sql_ndop,
                   gp_patient_list, fault, list_size_df, lsoa_df, ndop_df,
                   ndop_monthly_dfs, ndop_concat_df, ndop_deceased_concat_df,
                   ndop_age_gen_csv, ndop_res_geo_csv, table_3_df,
                   table_4_df, outputs_folder>>

\* main.py:43
CreateResGeoCsv ==
    /\ pc = "reg_geo"
    /\ ndop_res_geo_csv' = create_res_geo_csv(ndop_concat_df, lsoa_df)
    /\ pc' = "res_geo"
    /\ UNCHANGED <<end_date, reporting_period, start_date, sql_ndop,
                   gp_patient_list, fault, list_size_df, lsoa_df, ndop_df,
                   ndop_monthly_dfs, ndop_concat_df, ndop_deceased_concat_df,
                   ndop_age_gen_csv, ndop_reg_geo_csv, table_3_df,
                   table_4_df, outputs_folder>>

\* main.py:47-54; of the four tables of the workbook, the two that carry the
\* rates by practice and by sub-ICB are kept
CreateTables ==
    /\ pc = "res_geo"
    /\ table_3_df' = create_table_3_df(ndop_reg_geo_csv, end_date)
    /\ table_4_df' = create_table_4_df(ndop_reg_geo_csv, ndop_deceased_concat_df,
                                       end_date)
    /\ pc' = "tables"
    /\ UNCHANGED <<end_date, reporting_period, start_date, sql_ndop,
                   gp_patient_list, fault, list_size_df, lsoa_df, ndop_df,
                   ndop_monthly_dfs, ndop_concat_df, ndop_deceased_concat_df,
                   ndop_age_gen_csv, ndop_reg_geo_csv, ndop_res_geo_csv,
                   outputs_folder>>

OutputFiles == {"NDOP_sum", "NDOP_age_gen", "NDOP_reg_geog", "NDOP_res_geog"}

\* A write to a path of the outputs folder (wb.save, df.to_csv): the file is
\* complete when the write succeeds; a write that fails has created no file
\* or has left a part of it.
write_file(folder, file, succeeds) ==
    IF succeeds THEN {[folder EXCEPT ![file] = "complete"]}
    ELSE {[folder EXCEPT ![file] = "absent"], [folder EXCEPT ![file] = "partial"]}

\* create_excel.create_excel_publication: the template is loaded, the tables
\* are written into the workbook, the workbook is saved
CreateExcelPublication ==
    /\ pc = "tables"
    /\ IF fault = "template"
       THEN pc' = "failed" /\ UNCHANGED outputs_folder
       ELSE /\ outputs_folder' \in write_file(outputs_folder, "NDOP_sum",
                                               fault # "NDOP_sum")
            /\ pc' = IF fault = "NDOP_sum" THEN "failed" ELSE "excel"
    /\ UNCHANGED <<end_date, reporting_period, start_date, sql_ndop,
                   gp_patient_list, fault, list_size_df, lsoa_df, ndop_df,
                   ndop_monthly_dfs, ndop_concat_df, ndop_deceased_concat_df,
                   ndop_age_gen_csv, ndop_reg_geo_csv, ndop_res_geo_csv,
                   table_3_df, table_4_df>>

\* utils.write_to_outputs_folder, main.py:63
WriteAgeGenCsv ==
    /\ pc = "excel"
    /\ outputs_folder' \in write_file(outputs_folder, "NDOP_age_gen",
                                       fault # "NDOP_age_gen")
    /\ pc' = IF fault = "NDOP_age_gen" THEN "failed" ELSE "age_gen_written"
    /\ UNCHANGED <<end_date, reporting_period, start_date, sql_ndop,
                   gp_patient_list, fault, list_size_df, lsoa_df, ndop_df,
                   ndop_monthly_dfs, ndop_concat_df, ndop_deceased_concat_df,
                   ndop_age_gen_csv, ndop_reg_geo_csv, ndop_res_geo_csv,
                   table_3_df, table_4_df>>

\* main.py:66
WriteRegGeogCsv ==
    /\ pc = "age_gen_written"
    /\ outputs_folder' \in write_file(outputs_folder, "NDOP_reg_geog",
                                       fault # "NDOP_reg_geog")
    /\ pc' = IF fault = "NDOP_reg_geog" THEN "failed" ELSE "reg_geog_written"
    /\ UNCHANGED <<end_date, reporting_period, start_date, sql_ndop,
                   gp_patient_list, fault, list_size_df, lsoa_df, ndop_df,
                   ndop_monthly_dfs, ndop_concat_df, ndop_deceased_concat_df,
                   ndop_age_gen_csv, ndop_reg_geo_csv, ndop_res_geo_csv,
                   table_3_df, table_4_df>>

\* main.py:69
WriteResGeogCsv ==
    /\ pc = "reg_geog_written"
    /\ outputs_folder' \in write_file(outputs_folder, "NDOP_res_geog",
                                       fault # "NDOP_res_geog")
    /\ pc' = IF fault = "NDOP_res_geog" THEN "failed" ELSE "done"
    /\ UNCHANGED <<end_date, reporting_period, start_date, sql_ndop,
                   gp_patient_list, fault, list_size_df, lsoa_df, ndop_df,
                   ndop_monthly_dfs, ndop_concat_df, ndop_deceased_concat_df,
                   ndop_age_gen_csv, ndop_reg_geo_csv, ndop_res_geo_csv,
                   table_3_df, table_4_df>>

Next ==
    \/ MakeReportDates
    \/ PreprocessListSize
    \/ GetLsoaMappings
    \/ GetNdopData
    \/ ConcatenateLiving
    \/ ConcatenateDeceased
    \/ CreateAgeGenCsv
    \/ CreateRegGeoCsv
    \/ CreateResGeoCsv
    \/ CreateTables
    \/ CreateExcelPublication
    \/ WriteAgeGenCsv
    \/ WriteRegGeogCsv
    \/ WriteResGeogCsv

-----------------------------------------------------------------------------
(* Inputs *)

NdopRow(nhs, start, end, dod, age, gender) ==
    [NHS_Number |-> nhs, AGE_BAND |-> age, DATE_OF_DEATH |-> dod,
     GP_PRACTICE |-> <<"A", "1">>, LSOA_CODE |-> <<"E", "0", "1">>,
     GENDER |-> gender, Record_Start_Date |-> start, Record_End_Date |-> end]

ListSizeRow(date, practice, age, gender, size) ==
    [ACH_DATE |-> date, GP_PRACTICE |-> practice, AGE_BAND |-> age,
     GENDER |-> gender, LIST_SIZE |-> size]

NhsNumbers == {<<"4", "1">>, <<"4", "2">>}

Age_40_49 == <<"A", "g", "e", " ", "4", "0", "-", "4", "9">>
Age_NA == <<"A", "g", "e", " ", "N", "/", "A">>
Age_90 == <<"A", "g", "e", " ", "9", "0", " ", "a", "n", "d", " ", "o", "v", "e", "r">>

RPED == <<2022, 3, 1>>

\* record versions around the snapshots 2022-02-01 and 2022-03-01
ResolverRows ==
    {NdopRow(n, s, e, dod, Age_40_49, <<"1">>) :
        n \in NhsNumbers,
        s \in {<<2022, 2, 1>>, <<2022, 2, 15>>},
        e \in {NaT, <<2022, 2, 1>>, <<2022, 2, 20>>},
        dod \in {NaT, <<2022, 2, 1>>, <<2022, 2, 10>>}}

InitRun ==
    /\ pc = "start"
    /\ start_date = NaT
    /\ list_size_df = <<>>
    /\ ndop_df = <<>>
    /\ ndop_monthly_dfs = <<>>
    /\ ndop_concat_df = <<>>
    /\ ndop_deceased_concat_df = <<>>
    /\ ndop_age_gen_csv = <<>>
    /\ lsoa_df = <<>>
    /\ ndop_reg_geo_csv = <<>>
    /\ ndop_res_geo_csv = <<>>
    /\ table_3_df = <<>>
    /\ table_4_df = <<>>
    /\ outputs_folder = [f \in OutputFiles |-> "absent"]

Init ==
    /\ InitRun
    /\ fault = "none"
    /\ end_date = RPED
    /\ reporting_period = MaxPeriod
    /\ sql_ndop \in SeqsUpTo(ResolverRows, MaxRecords)
    /\ gp_patient_list =
         <<ListSizeRow(RPED, <<"A", "1">>, <<"4", "0", "_", "4", "9">>,
                       <<"M", "A", "L", "E">>, 1)>>

Spec == Init /\ [][Next]_vars

\* record versions of the aggregator runs: active at both snapshots, the
\* patient alive at the first one, with raw or missing age band and gender
AggregatorRows ==
    {NdopRow(n, <<2022, 2, 1>>, NaT, dod, ag[1], ag[2]) :
        n \in NhsNumbers,
        dod \in {NaT, <<2022, 2, 10>>},
        ag \in {<<Age_40_49, <<"1">> >>, <<Age_90, <<"2">> >>, <<Age_NA, <<"2">> >>,
                <<Age_40_49, NaN>>, <<Age_NA, <<"0">> >>, <<NaN, <<"1">> >>}}

InitAgg ==
    /\ InitRun
    /\ fault = "none"
    /\ end_date = RPED
    /\ reporting_period = MaxPeriod
    /\ sql_ndop \in SeqsUpTo(AggregatorRows, MaxRecords)
    /\ gp_patient_list =
         <<ListSizeRow(RPED, <<"A", "1">>, <<"4", "0", "_", "4", "9">>,
                       <<"M", "A", "L", "E">>, 1)>>

SpecAgg == InitAgg /\ [][Next]_vars

\* reporting end dates: month starts, month ends, a leap day, a mid-month day
EndDates ==
    {<<2022, 3, 1>>, <<2022, 3, 31>>, <<2022, 1, 1>>, <<2022, 1, 15>>,
     <<2024, 2, 29>>, <<2023, 12, 31>>, <<2022, 12, 1>>, <<2024, 3, 30>>}

WindowRows ==
    <<NdopRow(<<"4", "1">>, <<2019, 6, 1>>, NaT, NaT, Age_40_49, <<"1">>),
      NdopRow(<<"4", "2">>, <<2019, 6, 1>>, NaT, <<2021, 7, 9>>, Age_90, <<"2">>)>>

InitDates ==
    /\ InitRun
    /\ fault = "none"
    /\ end_date \in EndDates
    /\ reporting_period \in 0..MaxWindow
    /\ sql_ndop = WindowRows
    /\ gp_patient_list = <<>>

SpecDates == InitDates /\ [][Next]_vars

ListSizeRows ==
    {ListSizeRow(RPED, <<"A", "1">>, age, g, n) :
        age \in {<<"4", "0", "_", "4", "9">>, <<"9", "0", "+">>},
        g \in {<<"M", "A", "L", "E">>, <<"F", "E", "M", "A", "L", "E">>},
        n \in 0..MaxListSize}

RateRows ==
    {<<>>,
     <<NdopRow(<<"4", "1">>, <<2022, 2, 1>>, NaT, NaT, Age_40_49, <<"1">>)>>,
     <<NdopRow(<<"4", "1">>, <<2022, 2, 1>>, NaT, NaT, Age_40_49, <<"1">>),
       NdopRow(<<"4", "2">>, <<2022, 2, 1>>, NaT, NaT, Age_90, <<"2">>)>>,
     <<NdopRow(<<"4", "1">>, <<2022, 2, 1>>, NaT, <<2022, 2, 10>>, Age_40_49, <<"1">>),
       NdopRow(<<"4", "2">>, <<2022, 2, 1>>, NaT, NaT, Age_40_49, NaN)>>}

InitRate ==
    /\ InitRun
    /\ fault = "none"
    /\ end_date = RPED
    /\ reporting_period = 0
    /\ sql_ndop \in RateRows
    /\ gp_patient_list \in SeqsUpTo(ListSizeRows, MaxListRows)

SpecRate == InitRate /\ [][Next]_vars

\* a record active at the end date, registered at the given practice
NdopRowAt(nhs, dod, practice) ==
    [NdopRow(nhs, <<2022, 2, 1>>, NaT, dod, Age_40_49, <<"1">>)
        EXCEPT !.GP_PRACTICE = practice]

\* opt-outs at an active practice (A1, C3), at a practice that is not active
\* (B2) and without a practice, living and deceased
GeographyTables ==
    {<<NdopRowAt(<<"4", "1">>, NaT, <<"A", "1">>)>>,
     <<NdopRowAt(<<"4", "1">>, NaT, <<"B", "2">>)>>,
     <<NdopRowAt(<<"4", "1">>, NaT, <<"C", "3">>)>>,
     <<NdopRowAt(<<"4", "1">>, NaT, <<"A", "1">>),
       NdopRowAt(<<"4", "2">>, NaT, <<"B", "2">>)>>,
     <<NdopRowAt(<<"4", "1">>, NaT, <<"C", "3">>),
       NdopRowAt(<<"4", "2">>, <<2022, 2, 10>>, <<"C", "3">>)>>,
     <<NdopRowAt(<<"4", "1">>, <<2022, 2, 10>>, <<"A", "1">>),
       NdopRowAt(<<"4", "2">>, NaT, NaN)>>,
     <<NdopRowAt(<<"4", "1">>, <<2022, 2, 10>>, <<"B", "2">>)>>}

GeographyListSizeRows ==
    {ListSizeRow(RPED, p, <<"4", "0", "_", "4", "9">>, <<"M", "A", "L", "E">>, n) :
        p \in {<<"A", "1">>, <<"C", "3">>, <<"B", "2">>}, n \in 0..MaxListSize}

InitGeography ==
    /\ InitRun
    /\ fault = "none"
    /\ end_date = RPED
    /\ reporting_period = 0
    /\ sql_ndop \in GeographyTables
    /\ gp_patient_list \in SeqsUpTo(GeographyListSizeRows, MaxListRows)

SpecGeography == InitGeography /\ [][Next]_vars

\* the reads and the writes that can fail
Faults ==
    {"none", "list_size", "lsoa", "ndop", "template", "NDOP_sum", "NDOP_age_gen",
     "NDOP_reg_geog", "NDOP_res_geog"}

InitFaults ==
    /\ InitRun
    /\ fault \in Faults
    /\ end_date = RPED
    /\ reporting_period \in 0..MaxPeriod
    /\ sql_ndop \in GeographyTables
    /\ gp_patient_list =
         <<ListSizeRow(RPED, <<"A", "1">>, <<"4", "0", "_", "4", "9">>,
                       <<"M", "A", "L", "E">>, 1)>>

SpecFaults == InitFaults /\ [][Next]_vars

\* a record active in the window with the given number, practice, LSOA and
\* gender
CleaningRow(nhs, practice, lsoa, gender) ==
    [NdopRow(nhs, <<2022, 2, 1>>, NaT, NaT, Age_40_49, gender)
        EXCEPT !.GP_PRACTICE = practice, !.LSOA_CODE = lsoa]

\* the fixture categorical_columns of tests/test_src_excel.py: a row with
\* every value and a row without any (the gender 0 of the first row as text)
categorical_columns ==
    <<[GP_PRACTICE |-> <<"M", "1", "2", "3", "4", "5">>,
       REGISTERED_CCG |-> <<"B", "F", "1">>, CCG_OF_RESIDENCE |-> <<"B", "F", "1">>,
       LOCAL_AUTHORITY |-> <<"B", "F", "1">>, LSOA |-> <<"B", "F", "1">>,
       GENDER |-> <<"0">>],
      [GP_PRACTICE |-> NaN, REGISTERED_CCG |-> NaN, CCG_OF_RESIDENCE |-> NaN,
       LOCAL_AUTHORITY |-> NaN, LSOA |-> NaN, GENDER |-> NaN]>>

\* numbers that are valid, start with 9, are in INVALID_NHS_NUMBERS, are
\* missing or empty; missing practice, LSOA and gender
CleaningRows ==
    {CleaningRow(n, <<"A", "1">>, <<"E", "0", "1">>, <<"1">>) :
        n \in {<<"4", "1">>, <<"9", "1">>, Rep("9", 10), Rep("5", 10), NaN, <<>>}}
    \cup
    {CleaningRow(<<"4", "2">>, p, l, g) :
        p \in {<<"A", "1">>, NaN}, l \in {<<"E", "0", "1">>, NaN},
        g \in {<<"2">>, NaN}}

InitCleaning ==
    /\ InitRun
    /\ fault = "none"
    /\ end_date = RPED
    /\ reporting_period = 0
    /\ sql_ndop \in SeqsUpTo(CleaningRows, MaxRecords)
    /\ gp_patient_list =
         <<ListSizeRow(RPED, <<"A", "1">>, <<"4", "0", "_", "4", "9">>,
                       <<"M", "A", "L", "E">>, 1)>>

SpecCleaning == InitCleaning /\ [][Next]_vars

\* a record active at every date of the window, with its practice, its LSOA
\* and its date of death
ReconcileRow(nhs, dod, practice, lsoa) ==
    [NdopRowAt(nhs, dod, practice) EXCEPT !.LSOA_CODE = lsoa]

\* practices with a list size and full geography (A1), with a list size and
\* a commissioner code without reference data (D4), without list sizes (B2)
\* and no practice; LSOA codes in and out of the mapping workbook (E01, E02,
\* none)
ReconcileRows ==
    {ReconcileRow(<<"4", "1">>, NaT, p, l) :
        p \in {<<"A", "1">>, <<"B", "2">>, <<"D", "4">>, NaN},
        l \in {<<"E", "0", "1">>, <<"E", "0", "2">>, NaN}}
    \cup {ReconcileRow(<<"4", "2">>, NaT, <<"A", "1">>, <<"E", "0", "1">>),
          ReconcileRow(<<"4", "2">>, NaT, <<"B", "2">>, <<"E", "0", "2">>),
          ReconcileRow(<<"4", "2">>, <<2022, 2, 10>>, <<"A", "1">>, <<"E", "0", "1">>)}

\* patient lists at the end date for A1, C3, D4, E5 (no postcode in
\* ODS_PRACTICE_V02) and F6 (closed)
InitReconcile ==
    /\ InitRun
    /\ fault = "none"
    /\ end_date = RPED
    /\ reporting_period = MaxPeriod
    /\ sql_ndop \in SeqsUpTo(ReconcileRows, MaxRecords)
    /\ gp_patient_list =
         <<ListSizeRow(RPED, <<"A", "1">>, <<"4", "0", "_", "4", "9">>,
                       <<"M", "A", "L", "E">>, 2),
           ListSizeRow(RPED, <<"C", "3">>, <<"4", "0", "_", "4", "9">>,
                       <<"M", "A", "L", "E">>, 1),
           ListSizeRow(RPED, <<"D", "4">>, <<"4", "0", "_", "4", "9">>,
                       <<"M", "A", "L", "E">>, 1),
           ListSizeRow(RPED, <<"E", "5">>, <<"4", "0", "_", "4", "9">>,
                       <<"M", "A", "L", "E">>, 1),
           ListSizeRow(RPED, <<"F", "6">>, <<"4", "0", "_", "4", "9">>,
                       <<"M", "A", "L", "E">>, 1)>>

SpecReconcile == InitReconcile /\ [][Next]_vars

\* record versions that end before the window, start after it, touch its
\* first or its last day, or span it
ExtractionRows ==
    {NdopRow(<<"4", "1">>, i[1], i[2], NaT, Age_40_49, <<"1">>) :
        i \in {<<<<2022, 1, 10>>, <<2022, 1, 20>>>>,
               <<<<2022, 1, 10>>, NaT>>,
               <<<<2022, 1, 10>>, <<2022, 2, 20>>>>,
               <<<<2022, 3, 10>>, NaT>>,
               <<<<2022, 3, 1>>, <<2022, 3, 1>>>>,
               <<<<2022, 2, 1>>, <<2022, 2, 1>>>>}}
    \cup {NdopRow(<<"4", "2">>, <<2022, 1, 10>>, NaT, <<2022, 2, 25>>, Age_40_49, <<"1">>),
          NdopRow(<<"4", "2">>, <<2022, 3, 10>>, NaT, NaT, Age_40_49, <<"1">>)}

InitExtraction ==
    /\ InitRun
    /\ fault = "none"
    /\ end_date \in {<<2022, 3, 1>>, <<2022, 3, 15>>, <<2022, 3, 31>>}
    /\ reporting_period \in 0..MaxPeriod
    /\ sql_ndop \in SeqsUpTo(ExtractionRows, MaxRecords)
    /\ gp_patient_list =
         <<ListSizeRow(RPED, <<"A", "1">>, <<"4", "0", "_", "4", "9">>,
                       <<"M", "A", "L", "E">>, 1)>>

SpecExtraction == InitExtraction /\ [][Next]_vars

-----------------------------------------------------------------------------
(* Properties.  Dates are compared through Ordinal, a count that grows with
   the calendar, and not through the comparison the operators use. *)

Ordinal(d) == d[1] * 372 + d[2] * 31 + d[3]

Resolved == pc \in {"preprocessed", "age_gen"}

\* the rows of the cleaned table that are active at date
ActiveAt(date) ==
    {i \in 1..Len(ndop_df) :
        /\ ~isnat(ndop_df[i].Record_Start_Date)
        /\ Ordinal(ndop_df[i].Record_Start_Date) <= Ordinal(date)
        /\ \/ isnat(ndop_df[i].Record_End_Date)
           \/ Ordinal(ndop_df[i].Record_End_Date) >= Ordinal(date)}

IsLivingAt(r, date) ==
    isnat(r.DATE_OF_DEATH) \/ Ordinal(r.DATE_OF_DEATH) > Ordinal(date)

RowsOf(df, date, nhs) ==
    {i \in 1..Len(df) : df[i].ACH_DATE = date /\ df[i].NHS_Number = nhs}

OnePerPatient(df) ==
    \A i, j \in 1..Len(df) : df[i].NHS_Number = df[j].NHS_Number => i = j

OnePerDateAndPatient(df) ==
    \A i, j \in 1..Len(df) :
        (df[i].ACH_DATE = df[j].ACH_DATE /\ df[i].NHS_Number = df[j].NHS_Number)
            => i = j

\* C1: the result of every month holds at most one row per NHS_Number, for the
\* living and for the deceased, and each concatenated table holds every
\* (ACH_DATE, NHS_Number) pair at most once.
C1_OneRecordPerPatient ==
    /\ \A k \in 1..Len(ndop_monthly_dfs) : OnePerPatient(ndop_monthly_dfs[k])
    /\ OnePerDateAndPatient(ndop_concat_df)
    /\ OnePerDateAndPatient(ndop_deceased_concat_df)

\* a patient with two record versions that are active, and living, at one
\* snapshot date has been resolved to one row of that date
C1_Witness ==
    /\ Resolved
    /\ \E date \in Range(months) : \E i, j \in ActiveAt(date) :
          /\ i # j
          /\ ndop_df[i].NHS_Number = ndop_df[j].NHS_Number
          /\ IsLivingAt(ndop_df[i], date) /\ IsLivingAt(ndop_df[j], date)
          /\ Cardinality(RowsOf(ndop_concat_df, date, ndop_df[i].NHS_Number)) = 1

\* C2: no NHS_Number is both in the living and in the deceased result of one
\* snapshot date.
C2_LivingDeceasedDisjoint ==
    \A i \in 1..Len(ndop_concat_df) : \A j \in 1..Len(ndop_deceased_concat_df) :
        ~(/\ ndop_concat_df[i].ACH_DATE = ndop_deceased_concat_df[j].ACH_DATE
          /\ ndop_concat_df[i].NHS_Number = ndop_deceased_concat_df[j].NHS_Number)

\* C3: for every snapshot date the {date} total equals the sum of the
\* {date, gender} counts and the sum of the {date, age} counts of the living
\* table, and the deceased {date} total equals the sum of the deceased
\* {date, gender} counts.
DateTotal(df, measures, fill_value, date) ==
    LET rows == aggregate_ndop_by_measure(df, measures, fill_value)
    IN SumSeq([k \in 1..Len(rows) |->
                  IF rows[k].ACH_DATE = date THEN rows[k].OPT_OUT ELSE 0])

C3_BreakdownsReconcile ==
    Resolved =>
        \A date \in Range(months) :
            /\ DateTotal(ndop_concat_df, <<"ACH_DATE">>, All, date)
                 = DateTotal(ndop_concat_df, <<"ACH_DATE", "GENDER">>, All, date)
            /\ DateTotal(ndop_concat_df, <<"ACH_DATE">>, All, date)
                 = DateTotal(ndop_concat_df, <<"ACH_DATE", "AGE_BAND">>, All, date)
            /\ DateTotal(ndop_deceased_concat_df, <<"ACH_DATE">>, AllDeceased, date)
                 = DateTotal(ndop_deceased_concat_df, <<"ACH_DATE", "GENDER">>,
                             AllDeceased, date)

LivingActiveAt(date) == {i \in ActiveAt(date) : IsLivingAt(ndop_df[i], date)}

DeceasedActiveAt(date) == {i \in ActiveAt(date) : ~IsLivingAt(ndop_df[i], date)}

\* the candidates of one patient hold, in the table, one row of the date: one
\* of the candidates, with the latest start date among them
KeepsMostRecent(df, candidates, date) ==
    \A i \in candidates :
        LET nhs == ndop_df[i].NHS_Number
            rows == RowsOf(df, date, nhs)
            mine == {j \in candidates : ndop_df[j].NHS_Number = nhs}
        IN /\ Cardinality(rows) = 1
           /\ \A k \in rows :
                /\ \E j \in mine : \A c \in DOMAIN ndop_df[j] : df[k][c] = ndop_df[j][c]
                /\ \A j \in mine : Ordinal(df[k].Record_Start_Date)
                                      >= Ordinal(ndop_df[j].Record_Start_Date)

\* C4: retrieve_most_recent_record keeps, for every NHS_Number of its input,
\* exactly one record, one whose Record_Start_Date is the maximum over that
\* patient's input records.
C4_MostRecentRecordKept ==
    /\ pc \in {"living", "preprocessed", "age_gen"} =>
          \A date \in Range(months) :
              KeepsMostRecent(ndop_concat_df, LivingActiveAt(date), date)
    /\ Resolved =>
          \A date \in Range(months) :
              KeepsMostRecent(ndop_deceased_concat_df, DeceasedActiveAt(date), date)

\* two overlapping records of one living patient, the second starting later,
\* have been resolved to the later one
C4_Witness ==
    /\ pc = "living"
    /\ \E date \in Range(months) : \E i, j \in LivingActiveAt(date) :
          /\ ndop_df[i].NHS_Number = ndop_df[j].NHS_Number
          /\ Ordinal(ndop_df[i].Record_Start_Date)
                < Ordinal(ndop_df[j].Record_Start_Date)
          /\ \E k \in RowsOf(ndop_concat_df, date, ndop_df[i].NHS_Number) :
                ndop_concat_df[k].Record_Start_Date = ndop_df[j].Record_Start_Date

Loaded == pc \in {"ndop_df", "living", "preprocessed", "age_gen"}

IsDeceasedAt(r, date) ==
    ~isnat(r.DATE_OF_DEATH) /\ Ordinal(r.DATE_OF_DEATH) <= Ordinal(date)

\* C5: at a snapshot date a record passes filter_living_patients iff its
\* DATE_OF_DEATH is null or later than the date, and filter_deceased_patients
\* iff its DATE_OF_DEATH is on or before the date; every record passes exactly
\* one of the two, and a patient with one active record is in the living table
\* of the date or in the deceased one accordingly.
C5_DeathPartition ==
    /\ Loaded =>
          \A date \in Range(months) :
              LET s == slice_ndop_by_month(ndop_df, date)
                  living == filter_living_patients(s, date)
                  deceased == filter_deceased_patients(s, date)
              IN /\ \A k \in 1..Len(s) :
                       /\ s[k] \in Range(living) <=> IsLivingAt(s[k], date)
                       /\ s[k] \in Range(deceased) <=> IsDeceasedAt(s[k], date)
                 /\ Len(living) + Len(deceased) = Len(s)
                 /\ Range(living) \cap Range(deceased) = {}
    /\ Resolved =>
          \A date \in Range(months) : \A i \in ActiveAt(date) :
              LET nhs == ndop_df[i].NHS_Number IN
              (\A j \in ActiveAt(date) : ndop_df[j].NHS_Number = nhs => j = i) =>
                  /\ RowsOf(ndop_concat_df, date, nhs) # {}
                        <=> IsLivingAt(ndop_df[i], date)
                  /\ RowsOf(ndop_deceased_concat_df, date, nhs) # {}
                        <=> IsDeceasedAt(ndop_df[i], date)

\* a patient who died on a snapshot date is deceased at that date, and a
\* patient who died after one is living at it and deceased at the next
C5_Witness ==
    /\ Resolved
    /\ \E i \in 1..Len(ndop_deceased_concat_df) :
          /\ ndop_deceased_concat_df[i].DATE_OF_DEATH
                = ndop_deceased_concat_df[i].ACH_DATE
          /\ RowsOf(ndop_concat_df, ndop_deceased_concat_df[i].ACH_DATE,
                    ndop_deceased_concat_df[i].NHS_Number) = {}
    /\ \E i \in 1..Len(ndop_concat_df) : \E j \in 1..Len(ndop_deceased_concat_df) :
          /\ ndop_concat_df[i].NHS_Number = ndop_deceased_concat_df[j].NHS_Number
          /\ ndop_concat_df[i].DATE_OF_DEATH = ndop_deceased_concat_df[j].DATE_OF_DEATH
          /\ Ordinal(ndop_concat_df[i].ACH_DATE)
                < Ordinal(ndop_concat_df[i].DATE_OF_DEATH)
          /\ Ordinal(ndop_deceased_concat_df[j].ACH_DATE)
                > Ordinal(ndop_deceased_concat_df[j].DATE_OF_DEATH)

IsActiveRow(r) ==
    /\ ~isnat(r.Record_Start_Date)
    /\ Ordinal(r.Record_Start_Date) <= Ordinal(r.ACH_DATE)
    /\ isnat(r.Record_End_Date) \/ Ordinal(r.Record_End_Date) >= Ordinal(r.ACH_DATE)

SameRecord(tagged, r) == \A c \in DOMAIN r : tagged[c] = r[c]

\* C6: slice_ndop_by_month(records, d) keeps exactly the records with
\* Record_Start_Date <= d and Record_End_Date null or >= d, tagged with
\* ACH_DATE = d; no row of a concatenated table carries an ACH_DATE at which
\* its record is not active.
C6_ActiveSlice ==
    /\ Loaded =>
          \A date \in Range(months) :
              LET s == slice_ndop_by_month(ndop_df, date)
                  active == Ascending(ActiveAt(date))
              IN /\ Len(s) = Len(active)
                 /\ \A k \in 1..Len(s) :
                       /\ s[k].ACH_DATE = date
                       /\ SameRecord(s[k], ndop_df[active[k]])
    /\ \A k \in 1..Len(ndop_concat_df) :
          ndop_concat_df[k].ACH_DATE \in Range(months) /\ IsActiveRow(ndop_concat_df[k])
    /\ \A k \in 1..Len(ndop_deceased_concat_df) :
          /\ ndop_deceased_concat_df[k].ACH_DATE \in Range(months)
          /\ IsActiveRow(ndop_deceased_concat_df[k])

\* a record that starts on a snapshot date and one that ends on a snapshot
\* date are in the tables at that date, and a record is left out of a date
C6_Witness ==
    /\ Resolved
    /\ \E k \in 1..Len(ndop_concat_df) :
          ndop_concat_df[k].Record_Start_Date = ndop_concat_df[k].ACH_DATE
    /\ \E k \in 1..Len(ndop_concat_df) :
          ndop_concat_df[k].Record_End_Date = ndop_concat_df[k].ACH_DATE
    /\ \E date \in Range(months) : ActiveAt(date) # 1..Len(ndop_df)

InGroup(r, measures, a) == \A k \in 1..Len(measures) : r[measures[k]] = a[measures[k]]

CountsPatients(df, measures, fill_value) ==
    LET rows == aggregate_ndop_by_measure(df, measures, fill_value)
    IN /\ \A k \in 1..Len(rows) :
             rows[k].OPT_OUT =
                Cardinality({df[i].NHS_Number :
                    i \in {j \in 1..Len(df) : InGroup(df[j], measures, rows[k])}})
       /\ \A i \in 1..Len(df) :
             /\ Cardinality({k \in 1..Len(rows) : InGroup(df[i], measures, rows[k])}) = 1
             /\ SumSeq([k \in 1..Len(rows) |->
                          IF rows[k].ACH_DATE = df[i].ACH_DATE
                          THEN Cardinality({j \in 1..Len(df) :
                                  /\ df[j].NHS_Number = df[i].NHS_Number
                                  /\ InGroup(df[j], measures, rows[k])})
                          ELSE 0]) = 1

\* C7: in every living and deceased breakdown the count of a group is the
\* number of distinct patients of the group, and a patient of the cohort of a
\* date counts 1 in exactly one group of that date and 0 in the others.
C7_CountsDistinctPatients ==
    Resolved =>
        /\ \A m \in 1..Len(NDOP_MEASURES) :
              CountsPatients(ndop_concat_df, NDOP_MEASURES[m], All)
        /\ \A m \in 1..Len(NDOP_DECEASED_MEASURES) :
              CountsPatients(ndop_deceased_concat_df, NDOP_DECEASED_MEASURES[m],
                             AllDeceased)

MonthIndex(d) == d[1] * 12 + d[2]

\* C8: get_reporting_months_list() returns, strictly ascending, exactly the
\* first-of-month dates d with start_date <= d <= end_date, where start_date
\* is end_date minus reporting_period calendar months.
C8_ReportingMonths ==
    pc # "start" =>
        /\ MonthIndex(start_date) + reporting_period = MonthIndex(end_date)
        /\ start_date[3] = Min(end_date[3], DaysInMonth(start_date[1], start_date[2]))
        /\ \A k \in 1..(Len(months) - 1) : Ordinal(months[k]) < Ordinal(months[k + 1])
        /\ \A k \in 1..Len(months) :
              /\ months[k][3] = 1
              /\ Ordinal(start_date) <= Ordinal(months[k])
              /\ Ordinal(months[k]) <= Ordinal(end_date)
        /\ \A y \in start_date[1]..end_date[1] : \A m \in 1..12 :
              (/\ Ordinal(start_date) <= Ordinal(<<y, m, 1>>)
               /\ Ordinal(<<y, m, 1>>) <= Ordinal(end_date))
                  => <<y, m, 1>> \in Range(months)

\* a window of twelve months that ends in the middle of a month of the next
\* year, and a window that starts and ends on a month start
C8_Witness ==
    /\ pc = "living"
    /\ \/ Len(months) = 12 /\ end_date[3] # 1 /\ start_date[1] < end_date[1]
       \/ Len(months) = 12 /\ end_date[3] = 1 /\ start_date[3] = 1

\* C9: for every reporting end date, the last snapshot date is end_date and
\* the list has reporting_period + 1 dates, so the current-month filter
\* (ACH_DATE == end_date) selects exactly the rows of the last snapshot.
C9_WindowEndsAtEndDate ==
    pc # "start" =>
        /\ months # <<>>
        /\ months[Len(months)] = end_date
        /\ Len(months) = reporting_period + 1
        /\ pc = "age_gen" =>
              LET current == filter_data_to_current_month(ndop_age_gen_csv, end_date)
              IN /\ \A k \in 1..Len(ndop_age_gen_csv) :
                       ndop_age_gen_csv[k] \in Range(current)
                          <=> ndop_age_gen_csv[k].ACH_DATE
                                = format_publication_date(months[Len(months)])
                 /\ (\E k \in 1..Len(ndop_concat_df) :
                        ndop_concat_df[k].ACH_DATE = months[Len(months)])
                       => current # <<>>

\* C10: every row of the age/gender output has OPT_OUT_RATE = 100 * OPT_OUT /
\* LIST_SIZE when LIST_SIZE > 0 and OPT_OUT_RATE = 0 when LIST_SIZE = 0; the
\* rate is never negative, NaN or infinite.
C10_RateDefined ==
    \A k \in 1..Len(ndop_age_gen_csv) :
        LET r == ndop_age_gen_csv[k]
            rate == r.OPT_OUT_RATE
        IN /\ rate[1] = "fin"
           /\ rate[2] >= 0 /\ rate[3] > 0
           /\ r.LIST_SIZE > 0 => rate[2] * r.LIST_SIZE = 100 * r.OPT_OUT * rate[3]
           /\ r.LIST_SIZE = 0 => rate[2] = 0

\* the registered population of a key of the age/gender table: the list sizes
\* of the date whose age band and gender are those of the key, "All" standing
\* for every age band or every gender
PopulationOf(date, age, gender) ==
    SumSeq([n \in 1..Len(list_size_df) |->
        IF /\ list_size_df[n].ACH_DATE = date
           /\ ~isna(list_size_df[n].AGE_BAND) /\ ~isna(list_size_df[n].GENDER)
           /\ age = All \/ StrReplaceChar(list_size_df[n].AGE_BAND, "_", "-") = age
           /\ gender = All \/ StrCapitalize(list_size_df[n].GENDER) = gender
        THEN list_size_df[n].LIST_SIZE ELSE 0])

\* C11: every numerator row (living or deceased breakdown row) yields exactly
\* one row of the joined table, in the same order and with its key and count,
\* and its LIST_SIZE is the registered population of the key, 0 when no
\* list-size row matches.
C11_LeftJoinKeepsEveryNumerator ==
    Resolved =>
        LET num == age_gen_numerators(ndop_concat_df, ndop_deceased_concat_df)
            joined == age_gen_joined(ndop_concat_df, ndop_deceased_concat_df,
                                     list_size_df)
        IN /\ Len(joined) = Len(num)
           /\ \A k \in 1..Len(joined) :
                 /\ joined[k].ACH_DATE = num[k].ACH_DATE
                 /\ joined[k].AGE_BAND = num[k].AGE_BAND
                 /\ joined[k].GENDER = num[k].GENDER
                 /\ joined[k].OPT_OUT = num[k].OPT_OUT
                 /\ joined[k].LIST_SIZE =
                       PopulationOf(num[k].ACH_DATE, num[k].AGE_BAND, num[k].GENDER)

\* a living row with a list size, a living row of a date without list sizes
\* and a deceased row are joined
C11_Witness ==
    /\ Resolved
    /\ LET joined == age_gen_joined(ndop_concat_df, ndop_deceased_concat_df,
                                    list_size_df)
       IN /\ \E k \in 1..Len(joined) : joined[k].LIST_SIZE > 0
          /\ \E k \in 1..Len(joined) :
                /\ joined[k].GENDER = Male /\ joined[k].LIST_SIZE = 0
                /\ \A n \in 1..Len(list_size_df) :
                      list_size_df[n].ACH_DATE # joined[k].ACH_DATE
          /\ \E k \in 1..Len(joined) :
                joined[k].AGE_BAND = AllDeceased /\ joined[k].LIST_SIZE = 0

AgeGenDone == pc \in {"age_gen"}

SuppressedRow(r) ==
    r.GENDER = UnknownGender /\ r.AGE_BAND \notin {All, AllDeceased}

\* the row of the output made from a joined row: the date is formatted
Published(r) == [r EXCEPT !.ACH_DATE = <<@[3], @[2], @[1]>>]

\* C14: the age/gender output has no row of unknown gender with a specific
\* age band; every row of unknown gender with AGE_BAND "All" or "All deceased"
\* and every row of another gender that the join produced is in the output,
\* once.
C14_UnknownGenderSuppression ==
    AgeGenDone =>
        LET joined == age_gen_joined(ndop_concat_df, ndop_deceased_concat_df,
                                     list_size_df)
            out == ndop_age_gen_csv
        IN /\ \A k \in 1..Len(out) : ~SuppressedRow(out[k])
           /\ \A k \in 1..Len(joined) :
                 ~SuppressedRow(joined[k]) =>
                     Cardinality({n \in 1..Len(out) : out[n] = Published(joined[k])}) = 1
           /\ Len(out) = Cardinality({k \in 1..Len(joined) : ~SuppressedRow(joined[k])})

\* rows of unknown gender with a specific age band were produced and
\* dropped, and the living and the deceased totals of unknown gender are kept
C14_Witness ==
    /\ AgeGenDone
    /\ \E k \in 1..Len(age_gen_joined(ndop_concat_df, ndop_deceased_concat_df,
                                      list_size_df)) :
          SuppressedRow(age_gen_joined(ndop_concat_df, ndop_deceased_concat_df,
                                       list_size_df)[k])
    /\ \E k \in 1..Len(ndop_age_gen_csv) :
          ndop_age_gen_csv[k].GENDER = UnknownGender /\ ndop_age_gen_csv[k].AGE_BAND = All
    /\ \E k \in 1..Len(ndop_age_gen_csv) :
          /\ ndop_age_gen_csv[k].GENDER = UnknownGender
          /\ ndop_age_gen_csv[k].AGE_BAND = AllDeceased
    /\ \E k \in 1..Len(ndop_age_gen_csv) :
          ndop_age_gen_csv[k].GENDER = Male /\ ndop_age_gen_csv[k].AGE_BAND # All

\* the fixed orders of the publication
GenderRank(g) ==
    CASE g = <<"A", "l", "l">> -> 1
      [] g = <<"A", "l", "l", " ", "d", "e", "c", "e", "a", "s", "e", "d">> -> 2
      [] g = <<"F", "e", "m", "a", "l", "e">> -> 3
      [] g = <<"M", "a", "l", "e">> -> 4
      [] g = UnknownGender -> 5
      [] OTHER -> 0

AgeBandRank(a) ==
    CASE a = <<"0", "-", "9">> -> 1
      [] a = <<"1", "0", "-", "1", "9">> -> 2
      [] a = <<"2", "0", "-", "2", "9">> -> 3
      [] a = <<"3", "0", "-", "3", "9">> -> 4
      [] a = <<"4", "0", "-", "4", "9">> -> 5
      [] a = <<"5", "0", "-", "5", "9">> -> 6
      [] a = <<"6", "0", "-", "6", "9">> -> 7
      [] a = <<"7", "0", "-", "7", "9">> -> 8
      [] a = <<"8", "0", "-", "8", "9">> -> 9
      [] a = <<"9", "0", "+">> -> 10
      [] a = <<"A", "l", "l">> -> 11
      [] a = <<"U", "n", "k", "n", "o", "w", "n">> -> 12
      [] a = <<"A", "l", "l", " ", "d", "e", "c", "e", "a", "s", "e", "d">> -> 13
      [] OTHER -> 0

\* the day count of a published date <<day, month, year>>
PublishedOrdinal(d) == d[3] * 372 + d[2] * 31 + d[1]

Reverse(s) == [k \in 1..Len(s) |-> s[Len(s) + 1 - k]] \o <<>>

\* C15: the rows of the age/gender output are ordered by date descending,
\* then by gender in the fixed order, then by age band in the fixed order;
\* every GENDER and AGE_BAND is one of the listed categories; no two rows
\* compare equal, and the table is the same when the resolved records and the
\* list sizes are given in the opposite order.
C15_FixedCategoricalOrder ==
    AgeGenDone =>
        LET out == ndop_age_gen_csv IN
        /\ \A k \in 1..Len(out) :
              GenderRank(out[k].GENDER) > 0 /\ AgeBandRank(out[k].AGE_BAND) > 0
        /\ \A k \in 1..(Len(out) - 1) :
              LET a == out[k]
                  b == out[k + 1]
              IN \/ PublishedOrdinal(a.ACH_DATE) > PublishedOrdinal(b.ACH_DATE)
                 \/ /\ a.ACH_DATE = b.ACH_DATE
                    /\ GenderRank(a.GENDER) < GenderRank(b.GENDER)
                 \/ /\ a.ACH_DATE = b.ACH_DATE
                    /\ a.GENDER = b.GENDER
                    /\ AgeBandRank(a.AGE_BAND) < AgeBandRank(b.AGE_BAND)
        /\ out = create_age_gen_csv(Reverse(ndop_concat_df),
                                    Reverse(ndop_deceased_concat_df),
                                    Reverse(list_size_df))

\* an output over two dates with a deceased row before a Female row before a
\* Male row, and an age band before the age total
C15_Witness ==
    /\ AgeGenDone
    /\ \E i, j \in 1..Len(ndop_age_gen_csv) :
          PublishedOrdinal(ndop_age_gen_csv[i].ACH_DATE)
             # PublishedOrdinal(ndop_age_gen_csv[j].ACH_DATE)
    /\ \E i, j, k \in 1..Len(ndop_age_gen_csv) :
          /\ i < j /\ j < k
          /\ ndop_age_gen_csv[i].GENDER = AllDeceased
          /\ ndop_age_gen_csv[j].GENDER = Female
          /\ ndop_age_gen_csv[k].GENDER = Male
          /\ ndop_age_gen_csv[k].AGE_BAND # All
          /\ ndop_age_gen_csv[k + 1].AGE_BAND = All

SameKey(a, b) ==
    a.ACH_DATE = b.ACH_DATE /\ a.AGE_BAND = b.AGE_BAND /\ a.GENDER = b.GENDER

\* the rows of one breakdown: its columns, the fill of the dimensions that
\* are not grouped, and the count of the records of each group
BreakdownFilled(df, measures, fill_value) ==
    LET rows == aggregate_ndop_by_measure(df, measures, fill_value)
    IN \A k \in 1..Len(rows) :
          /\ DOMAIN rows[k] = {"ACH_DATE", "AGE_BAND", "GENDER", "OPT_OUT"}
          /\ "AGE_BAND" \notin Range(measures) => rows[k].AGE_BAND = fill_value
          /\ "GENDER" \notin Range(measures) => rows[k].GENDER = fill_value
          /\ rows[k].OPT_OUT > 0
          /\ rows[k].OPT_OUT =
                Cardinality({i \in 1..Len(df) : InGroup(df[i], measures, rows[k])})

\* C16: every breakdown has the columns ACH_DATE, AGE_BAND, GENDER, OPT_OUT; a
\* dimension that is not grouped is "All" in the living breakdowns and "All
\* deceased" in the deceased ones; the grouped values and the counts are those
\* of the groups; no two rows of the concatenated breakdowns share a key.
C16_UniformBreakdowns ==
    Resolved =>
        /\ \A m \in 1..Len(NDOP_MEASURES) :
              BreakdownFilled(ndop_concat_df, NDOP_MEASURES[m], All)
        /\ \A m \in 1..Len(NDOP_DECEASED_MEASURES) :
              BreakdownFilled(ndop_deceased_concat_df, NDOP_DECEASED_MEASURES[m],
                              AllDeceased)
        /\ LET num == age_gen_numerators(ndop_concat_df, ndop_deceased_concat_df)
           IN \A i, j \in 1..Len(num) : SameKey(num[i], num[j]) => i = j

\* living and deceased records of one date give a living total and a
\* deceased total, and a gender breakdown filled with "All"
C16_Witness ==
    /\ Resolved
    /\ LET num == age_gen_numerators(ndop_concat_df, ndop_deceased_concat_df)
       IN \E i, j, k \in 1..Len(num) :
             /\ num[i].ACH_DATE = num[j].ACH_DATE
             /\ num[i].AGE_BAND = All /\ num[i].GENDER = All
             /\ num[j].AGE_BAND = AllDeceased /\ num[j].GENDER = AllDeceased
             /\ num[k].AGE_BAND = All /\ num[k].GENDER = Female

-----------------------------------------------------------------------------
(* Outer join, zero population *)

\* the living opt-outs of a date in an age band and gender
OptOutsOf(date, age, gender) ==
    Cardinality({i \in 1..Len(ndop_concat_df) :
                    /\ ndop_concat_df[i].ACH_DATE = date
                    /\ ndop_concat_df[i].AGE_BAND = age
                    /\ ndop_concat_df[i].GENDER = gender})

\* the living opt-outs of a date registered at a practice
OptOutsAt(date, practice) ==
    Cardinality({i \in 1..Len(ndop_concat_df) :
                    /\ ndop_concat_df[i].ACH_DATE = date
                    /\ ndop_concat_df[i].GP_PRACTICE = practice})

\* the registered population of a practice at a date
PopulationAt(date, practice) ==
    SumSeq([n \in 1..Len(list_size_df) |->
        IF list_size_df[n].ACH_DATE = date /\ list_size_df[n].GP_PRACTICE = practice
        THEN list_size_df[n].LIST_SIZE ELSE 0])

HasListSize(date, practice) ==
    \E n \in 1..Len(list_size_df) :
        list_size_df[n].ACH_DATE = date /\ list_size_df[n].GP_PRACTICE = practice

\* C12: in the age/gender table and in the registration-geography table,
\* every group of the list sizes has a row, with opt-out count 0 when the
\* group has no opt-outs, and every group of the opt-outs has a row, with
\* list size 0 when the group has no registered population (for a practice
\* without list sizes, the row of the unallocated practice; the suppressed
\* rows of unknown gender are left aside).
C12_OuterJoinBothTables ==
    pc = "reg_geo" =>
        /\ \A n \in 1..Len(list_size_df) :
              LET l == list_size_df[n]
                  age == StrReplaceChar(l.AGE_BAND, "_", "-")
                  gender == StrCapitalize(l.GENDER)
              IN /\ \E k \in 1..Len(ndop_age_gen_csv) :
                        /\ ndop_age_gen_csv[k].ACH_DATE = format_publication_date(l.ACH_DATE)
                        /\ ndop_age_gen_csv[k].AGE_BAND = age
                        /\ ndop_age_gen_csv[k].GENDER = gender
                        /\ ndop_age_gen_csv[k].OPT_OUT = OptOutsOf(l.ACH_DATE, age, gender)
                 /\ \E k \in 1..Len(ndop_reg_geo_csv) :
                        /\ ndop_reg_geo_csv[k].ACH_DATE = format_publication_date(l.ACH_DATE)
                        /\ ndop_reg_geo_csv[k].GP_PRACTICE = l.GP_PRACTICE
                        /\ ndop_reg_geo_csv[k].OPT_OUT = OptOutsAt(l.ACH_DATE, l.GP_PRACTICE)
        /\ \A i \in 1..Len(ndop_concat_df) :
              LET r == ndop_concat_df[i]
              IN /\ r.GENDER = UnknownGender \/ \E k \in 1..Len(ndop_age_gen_csv) :
                        /\ ndop_age_gen_csv[k].ACH_DATE = format_publication_date(r.ACH_DATE)
                        /\ ndop_age_gen_csv[k].AGE_BAND = r.AGE_BAND
                        /\ ndop_age_gen_csv[k].GENDER = r.GENDER
                        /\ ndop_age_gen_csv[k].LIST_SIZE =
                              PopulationOf(r.ACH_DATE, r.AGE_BAND, r.GENDER)
                 /\ \E k \in 1..Len(ndop_reg_geo_csv) :
                        /\ ndop_reg_geo_csv[k].ACH_DATE = format_publication_date(r.ACH_DATE)
                        /\ ndop_reg_geo_csv[k].GP_PRACTICE =
                              IF HasListSize(r.ACH_DATE, r.GP_PRACTICE)
                              THEN r.GP_PRACTICE ELSE Unallocated
                        /\ ndop_reg_geo_csv[k].LIST_SIZE =
                              PopulationAt(r.ACH_DATE, r.GP_PRACTICE)

\* the practices with one or more living opt-outs at the end date and no
\* registered population
ZeroPopulationPractices ==
    {ndop_concat_df[i].GP_PRACTICE :
        i \in {j \in 1..Len(ndop_concat_df) :
                  /\ ndop_concat_df[j].ACH_DATE = end_date
                  /\ PopulationAt(end_date, ndop_concat_df[j].GP_PRACTICE) = 0}}

\* a rendered rate that is 0 or the placeholder
ZeroOrZ(rate) == IF rate = LowerZ THEN TRUE ELSE rate[1] = "fin" /\ rate[2] = 0

\* a rendered rate that is a number or the placeholder
NumberOrZ(rate) == IF rate = LowerZ THEN TRUE ELSE rate[1] = "fin"

\* the sub-ICB code under which Table 4 counts a practice
SubIcbOf(practice) ==
    IF HasListSize(end_date, practice)
    THEN LET n == CHOOSE n \in 1..Len(list_size_df) :
                     /\ list_size_df[n].ACH_DATE = end_date
                     /\ list_size_df[n].GP_PRACTICE = practice
         IN list_size_df[n].SUB_ICB_LOCATION_CODE
    ELSE Unallocated

\* C13: a practice with opt-outs at the end date and no registered
\* population has a Table 3 row (its own, or the unallocated row when it has
\* no list sizes) whose rate is 0 or "z", and the Table 4 row of its sub-ICB
\* has a rate that is a number or "z", never NaN or infinity.
C13_ZeroPopulationRate ==
    pc = "tables" =>
        \A p \in ZeroPopulationPractices :
            LET code == IF HasListSize(end_date, p) THEN p ELSE Unallocated
            IN /\ \E k \in 1..Len(table_3_df) : table_3_df[k]["Practice code"] = code
               /\ \A k \in 1..Len(table_3_df) :
                     table_3_df[k]["Practice code"] = code =>
                         ZeroOrZ(table_3_df[k]["Opt-out Rate"])
               /\ \E k \in 1..Len(table_4_df) : table_4_df[k].Code = SubIcbOf(p)
               /\ \A k \in 1..Len(table_4_df) :
                     table_4_df[k].Code = SubIcbOf(p) =>
                         NumberOrZ(table_4_df[k]["Opt-out Rate"])

-----------------------------------------------------------------------------
(* Output files *)

NoOutput == \A f \in OutputFiles : outputs_folder[f] = "absent"

WriteFaults == {"NDOP_sum", "NDOP_age_gen", "NDOP_reg_geog", "NDOP_res_geog"}

\* C18: a run that has completed has written the four files completely, and
\* in every state in which the run has failed no output file exists, not
\* even in part, whichever step failed.
C18_AllOrNothing ==
    /\ pc = "done" => \A f \in OutputFiles : outputs_folder[f] = "complete"
    /\ pc = "failed" => NoOutput

\* the positions of the run from which a read of an input or the computation
\* of a table is still to come
ReadsOrTablesAhead ==
    {"start", "report_dates", "list_size", "lsoa", "ndop_df", "living",
     "preprocessed", "age_gen", "reg_geo", "res_geo"}

\* C19: as long as a read of an input or the computation of a table is still
\* to come no output file exists, and a run that failed at a read, at a
\* computation or at the load of the template has written no output file.
C19_ReadsAndTablesBeforeFirstWrite ==
    /\ pc \in ReadsOrTablesAhead => NoOutput
    /\ pc = "failed" /\ fault \notin WriteFaults => NoOutput

\* the NDOP extraction failed after the list sizes and the LSOA mapping were
\* read: the run has stopped and no file exists
C19_Witness ==
    /\ pc = "failed" /\ fault = "ndop"
    /\ list_size_df # <<>> /\ lsoa_df # <<>>
    /\ NoOutput

-----------------------------------------------------------------------------
(* Deceased resolution *)

\* the records of patients dead at the date, active at the date or not
DeceasedAt(date) == {i \in 1..Len(ndop_df) : IsDeceasedAt(ndop_df[i], date)}

\* C20 as stated: for every patient with a record whose DATE_OF_DEATH is on
\* or before the date, the deceased table holds one row of the date, the
\* record with the latest Record_Start_Date among all those records, a
\* record that starts after the date included.
C20_LatestAmongAllDeceasedRecords ==
    Resolved =>
        \A date \in Range(months) :
            KeepsMostRecent(ndop_deceased_concat_df, DeceasedAt(date), date)

\* C20, amended: for every patient with a record that is active at the date
\* and whose DATE_OF_DEATH is on or before the date, the deceased table holds
\* one row of the date, the record with the latest Record_Start_Date among
\* those records; every row of the date is such a record, so a record that
\* starts after the date is never returned.
C20_LatestAmongActiveDeceasedRecords ==
    Resolved =>
        \A date \in Range(months) :
            /\ KeepsMostRecent(ndop_deceased_concat_df, DeceasedActiveAt(date), date)
            /\ \A k \in 1..Len(ndop_deceased_concat_df) :
                  ndop_deceased_concat_df[k].ACH_DATE = date =>
                      /\ Ordinal(ndop_deceased_concat_df[k].Record_Start_Date)
                            <= Ordinal(date)
                      /\ \E i \in DeceasedActiveAt(date) :
                            \A c \in DOMAIN ndop_df[i] :
                                ndop_deceased_concat_df[k][c] = ndop_df[i][c]

\* a dead patient has a record active at the date and a record that starts
\* after the date; the row of the date is the active one
C20_Witness ==
    /\ Resolved
    /\ \E date \in Range(months) :
          \E i \in DeceasedActiveAt(date) : \E j \in DeceasedAt(date) :
              /\ ndop_df[i].NHS_Number = ndop_df[j].NHS_Number
              /\ Ordinal(ndop_df[j].Record_Start_Date) > Ordinal(date)
              /\ \E k \in RowsOf(ndop_deceased_concat_df, date, ndop_df[i].NHS_Number) :
                    ndop_deceased_concat_df[k].Record_Start_Date
                        = ndop_df[i].Record_Start_Date

-----------------------------------------------------------------------------
(* Cleaning *)

\* out holds the rows of in that do not meet the criterion, in input order
ExactlyRemoves(in, out, Removed(_)) ==
    LET kept == {i \in 1..Len(in) : ~Removed(in[i])}
    IN /\ Len(out) = Cardinality(kept)
       /\ \A i \in kept : out[Cardinality({j \in kept : j <= i})] = in[i]

StartsWith9(r) ==
    r.NHS_Number # NaN /\ Len(r.NHS_Number) > 0 /\ r.NHS_Number[1] = "9"

\* one of 1111111111, 2222222222, ..., 9999999999
IsInvalidNumber(r) ==
    /\ r.NHS_Number # NaN /\ Len(r.NHS_Number) = 10
    /\ r.NHS_Number[1] \in {"1", "2", "3", "4", "5", "6", "7", "8", "9"}
    /\ \A i \in 1..10 : r.NHS_Number[i] = r.NHS_Number[1]

\* the rows that the query of get_ndop_data returns in this run
Extracted ==
    LET InWindow(r) ==
            /\ Ordinal(r.Record_Start_Date) <= Ordinal(end_date)
            /\ \/ isnat(r.Record_End_Date)
               \/ Ordinal(r.Record_End_Date) >= Ordinal(start_date)
        kept == {i \in 1..Len(sql_ndop) : InWindow(sql_ndop[i])}
    IN [k \in 1..Cardinality(kept) |->
          sql_ndop[CHOOSE i \in kept : Cardinality({j \in kept : j <= i}) = k]]

\* C21: applied to the extracted rows, remove_nhs_number_which_are_invalid
\* removes exactly the rows whose number is in INVALID_NHS_NUMBERS, and
\* remove_nhs_number_starting_with_9, applied to the extracted rows or to the
\* result of the first filter, exactly the rows whose number starts with 9;
\* the other rows, those of a missing number included, stay in input order.
C21_NhsNumberFilters ==
    Loaded =>
        LET valid == remove_nhs_number_which_are_invalid(Extracted)
        IN /\ ExactlyRemoves(Extracted, valid, IsInvalidNumber)
           /\ ExactlyRemoves(Extracted, remove_nhs_number_starting_with_9(Extracted),
                             StartsWith9)
           /\ ExactlyRemoves(valid, remove_nhs_number_starting_with_9(valid),
                             StartsWith9)
           /\ Len(ndop_df) =
                 Cardinality({i \in 1..Len(Extracted) :
                     /\ ~IsInvalidNumber(Extracted[i]) /\ ~StartsWith9(Extracted[i])
                     /\ Extracted[i].NHS_Number # NaN})

\* the extracted rows hold a missing number and a number that starts with 9:
\* the filter has kept the first and removed the second
C21_Witness ==
    /\ Loaded
    /\ \E i, j \in 1..Len(Extracted) :
          /\ Extracted[i].NHS_Number = NaN
          /\ StartsWith9(Extracted[j]) /\ ~IsInvalidNumber(Extracted[j])
    /\ Len(remove_nhs_number_starting_with_9(Extracted)) = 1

\* out is in with the missing values of those of the columns cols that the
\* table has replaced by value, and nothing else changed
FillsColumns(in, out, cols, value) ==
    /\ Len(out) = Len(in)
    /\ \A k \in 1..Len(in) :
          /\ DOMAIN out[k] = DOMAIN in[k]
          /\ \A c \in DOMAIN in[k] :
                out[k][c] = IF c \in cols /\ in[k][c] = NaN THEN value ELSE in[k][c]

\* the table that clean_nhs_numbers hands to fill_empty_categorical_column_values
NumbersCleaned ==
    LET Keep(i) == /\ ~IsInvalidNumber(Extracted[i]) /\ ~StartsWith9(Extracted[i])
                   /\ Extracted[i].NHS_Number # NaN
        kept == {i \in 1..Len(Extracted) : Keep(i)}
    IN [k \in 1..Cardinality(kept) |->
          Extracted[CHOOSE i \in kept : Cardinality({j \in kept : j <= i}) = k]]

\* C22: on the frame that the run hands to it, on the frame of
\* test_remap_columns_returns_correct_values, on that frame with its LSOA
\* column named LSOA_CODE as the query of get_ndop_data names it, and on these
\* two frames without their rows, fill_empty_categorical_column_values returns
\* a table in which every missing GP_PRACTICE, REGISTERED_CCG,
\* CCG_OF_RESIDENCE, LOCAL_AUTHORITY and LSOA (LSOA_CODE) is "Unallocated" and
\* GENDER and the values present are unchanged;
\* fill_empty_gender_column_values makes every missing GENDER
\* "Unknown / Prefer not to say" and changes nothing else.
C22_FillsFiveGeographyColumns ==
    Loaded =>
        LET AsExtracted(r) ==
                [c \in (DOMAIN r \ {"LSOA"}) \cup {"LSOA_CODE"} |->
                    IF c = "LSOA_CODE" THEN r.LSOA ELSE r[c]]
            fixture_columns == DOMAIN categorical_columns[1]
            extracted_columns == (fixture_columns \ {"LSOA"}) \cup {"LSOA_CODE"}
            claimed == {"GP_PRACTICE", "REGISTERED_CCG", "CCG_OF_RESIDENCE",
                        "LOCAL_AUTHORITY", "LSOA", "LSOA_CODE"}
        IN \A frame \in {<<NumbersCleaned, ndop_columns>>,
                         <<categorical_columns, fixture_columns>>,
                         <<Map(categorical_columns, AsExtracted), extracted_columns>>,
                         <<<<>>, fixture_columns>>,
                         <<<<>>, extracted_columns>>} :
              LET in == frame[1]
                  filled == fill_empty_categorical_column_values(in, frame[2])
              IN /\ filled.raises = "none"
                 /\ FillsColumns(in, filled.df, claimed, Unallocated)
                 /\ FillsColumns(in, fill_empty_gender_column_values(in),
                                 {"GENDER"}, UnknownGender)

-----------------------------------------------------------------------------
(* Ties *)

\* of the candidates of the patient of record i, the first in input order
\* among those with the greatest start date
FirstOfLatest(candidates, i) ==
    LET mine == {j \in candidates : ndop_df[j].NHS_Number = ndop_df[i].NHS_Number}
        latest == {j \in mine : \A l \in mine :
                      Ordinal(ndop_df[j].Record_Start_Date)
                          >= Ordinal(ndop_df[l].Record_Start_Date)}
    IN CHOOSE j \in latest : \A l \in latest : j <= l

\* the records of one patient, in input order
RecordsOf(nhs) ==
    LET mine == {i \in 1..Len(ndop_df) : ndop_df[i].NHS_Number = nhs}
    IN [k \in 1..Cardinality(mine) |->
          ndop_df[CHOOSE i \in mine : Cardinality({j \in mine : j <= i}) = k]]

KeepsFirstOfLatest(df, candidates, date) ==
    \A i \in candidates :
        \A k \in RowsOf(df, date, ndop_df[i].NHS_Number) :
            SameRecord(df[k], ndop_df[FirstOfLatest(candidates, i)])

-----------------------------------------------------------------------------
(* Numerator and denominator breakdowns *)

LivingNumerators == Flatten(create_df_list_for_age_gen_csv(ndop_concat_df, NDOP_MEASURES, All))

DeceasedNumerators ==
    Flatten(create_df_list_for_age_gen_csv(ndop_deceased_concat_df,
                                           NDOP_DECEASED_MEASURES, AllDeceased))

IsPlaceholder(v) == v \in {All, AllDeceased}

\* the list sizes hold the date of the numerator row and, where the row names
\* an age band or a gender, that age band and that gender
HasPopulation(r) ==
    \E n \in 1..Len(list_size_df) :
        /\ list_size_df[n].ACH_DATE = r.ACH_DATE
        /\ IsPlaceholder(r.AGE_BAND)
              \/ StrReplaceChar(list_size_df[n].AGE_BAND, "_", "-") = r.AGE_BAND
        /\ IsPlaceholder(r.GENDER)
              \/ StrCapitalize(list_size_df[n].GENDER) = r.GENDER

FindsListSize(r) ==
    LET sizes == list_size_for_age_gen_csv(list_size_df)
    IN \E j \in 1..Len(sizes) :
          /\ sizes[j].ACH_DATE = r.ACH_DATE
          /\ sizes[j].AGE_BAND = r.AGE_BAND
          /\ sizes[j].GENDER = r.GENDER

SameDimensionSets(groups) ==
    \A m \in 1..Len(groups) :
        \E l \in 1..Len(age_gen_list_size_measure_groups) :
            Range(age_gen_list_size_measure_groups[l]) = Range(groups[m])

\* C25 as stated: the list sizes are aggregated over the dimension sets of the
\* four living and of the two deceased breakdowns with the same placeholder
\* label, so that every numerator row, living or deceased, whose date, age
\* band and gender the list sizes hold finds a list-size row with its key.
C25_EveryBreakdownFindsListSize ==
    Resolved =>
        /\ SameDimensionSets(NDOP_MEASURES)
        /\ SameDimensionSets(NDOP_DECEASED_MEASURES)
        /\ \A k \in 1..Len(LivingNumerators) :
              HasPopulation(LivingNumerators[k]) => FindsListSize(LivingNumerators[k])
        /\ \A k \in 1..Len(DeceasedNumerators) :
              HasPopulation(DeceasedNumerators[k]) => FindsListSize(DeceasedNumerators[k])

\* C25, amended: the four living breakdowns have a list-size breakdown over
\* the same dimension set with the same placeholder "All", and a living
\* numerator row whose date, age band and gender the list sizes hold finds a
\* list-size row with its key; the deceased breakdowns are labelled
\* "All deceased", which no list-size row carries, and a deceased numerator
\* row finds no list-size row.
C25_LivingBreakdownsFindListSize ==
    Resolved =>
        /\ SameDimensionSets(NDOP_MEASURES)
        /\ \A k \in 1..Len(LivingNumerators) :
              HasPopulation(LivingNumerators[k]) => FindsListSize(LivingNumerators[k])
        /\ \A k \in 1..Len(DeceasedNumerators) :
              ~FindsListSize(DeceasedNumerators[k])

\* a living row of the date total and a living row of one age band and gender
\* find their list sizes, and a deceased row of a date and gender that the
\* list sizes hold finds none
C25_Witness ==
    /\ Resolved
    /\ \E k \in 1..Len(LivingNumerators) :
          /\ LivingNumerators[k].AGE_BAND = All /\ LivingNumerators[k].GENDER = All
          /\ FindsListSize(LivingNumerators[k])
    /\ \E k \in 1..Len(LivingNumerators) :
          /\ ~IsPlaceholder(LivingNumerators[k].AGE_BAND)
          /\ ~IsPlaceholder(LivingNumerators[k].GENDER)
          /\ FindsListSize(LivingNumerators[k])
    /\ \E k \in 1..Len(DeceasedNumerators) :
          /\ DeceasedNumerators[k].GENDER = Male
          /\ HasPopulation(DeceasedNumerators[k])
          /\ ~FindsListSize(DeceasedNumerators[k])

-----------------------------------------------------------------------------
(* Reconciliation of the breakdowns *)

GeographyDone ==
    pc \in {"res_geo", "tables", "excel", "age_gen_written", "reg_geog_written", "done"}

\* the rows of an output of the date, whether the table carries the date as
\* it was resolved or as it is published
OfDate(r, date) == r.ACH_DATE = date \/ r.ACH_DATE = <<date[3], date[2], date[1]>>

SumOptOut(df, date) ==
    SumSeq([k \in 1..Len(df) |-> IF OfDate(df[k], date) THEN df[k].OPT_OUT ELSE 0])

\* the {date} total of the living age/gender breakdown
AgeGenTotal(date) ==
    SumSeq([k \in 1..Len(ndop_age_gen_csv) |->
              IF /\ OfDate(ndop_age_gen_csv[k], date)
                 /\ ndop_age_gen_csv[k].AGE_BAND = All
                 /\ ndop_age_gen_csv[k].GENDER = All
              THEN ndop_age_gen_csv[k].OPT_OUT ELSE 0])

LivingRecordsAt(date) ==
    Cardinality({k \in 1..Len(ndop_concat_df) : ndop_concat_df[k].ACH_DATE = date})

\* C26: for every snapshot date the opt-outs of the registration-geography
\* rows, the opt-outs of the residence-geography rows and the date total of
\* the living age/gender breakdown all equal the number of Living records of
\* the date, whatever practice or LSOA code has no reference data.
C26_BreakdownsReconcile ==
    GeographyDone =>
        \A date \in Range(months) :
            /\ SumOptOut(ndop_reg_geo_csv, date) = LivingRecordsAt(date)
            /\ SumOptOut(ndop_res_geo_csv, date) = LivingRecordsAt(date)
            /\ AgeGenTotal(date) = LivingRecordsAt(date)

\* two Living records at the end date, one of a practice without list sizes
\* and one of an LSOA code that the mapping workbook lacks, and a practice
\* with list sizes and no opt-outs
C26_Witness ==
    /\ pc = "res_geo"
    /\ LivingRecordsAt(end_date) = 2
    /\ \E k \in 1..Len(ndop_concat_df) :
          /\ ndop_concat_df[k].ACH_DATE = end_date
          /\ ndop_concat_df[k].GP_PRACTICE = <<"B", "2">>
    /\ \E k \in 1..Len(ndop_concat_df) :
          /\ ndop_concat_df[k].ACH_DATE = end_date
          /\ ndop_concat_df[k].LSOA_CODE = <<"E", "0", "2">>
    /\ \E k \in 1..Len(ndop_reg_geo_csv) :
          ndop_reg_geo_csv[k].OPT_OUT = 0 /\ ndop_reg_geo_csv[k].LIST_SIZE > 0
    /\ \E k \in 1..Len(ndop_res_geo_csv) :
          ndop_res_geo_csv[k].LSOA_CODE = Unallocated

RegGeoDone ==
    pc \in {"reg_geo", "res_geo", "tables", "excel", "age_gen_written",
            "reg_geog_written", "done"}

\* the practice has an active list-size entry at the date
HasActiveListSize(practice, date) ==
    \E n \in 1..Len(list_size_df) :
        list_size_df[n].ACH_DATE = date /\ list_size_df[n].GP_PRACTICE = practice

ListSizeOfPractice(practice, date) ==
    SumSeq([n \in 1..Len(list_size_df) |->
              IF list_size_df[n].ACH_DATE = date /\ list_size_df[n].GP_PRACTICE = practice
              THEN list_size_df[n].LIST_SIZE ELSE 0])

OptOutsOfPractice(practice, date) ==
    Cardinality({k \in 1..Len(ndop_concat_df) :
                    /\ ndop_concat_df[k].ACH_DATE = date
                    /\ ndop_concat_df[k].GP_PRACTICE = practice})

\* the Living records of the date registered at a practice without an active
\* list-size entry
OptOutsWithoutListSize(date) ==
    Cardinality({k \in 1..Len(ndop_concat_df) :
                    /\ ndop_concat_df[k].ACH_DATE = date
                    /\ ~HasActiveListSize(ndop_concat_df[k].GP_PRACTICE, date)})

RegGeoRowsAt(date) == {k \in 1..Len(ndop_reg_geo_csv) : OfDate(ndop_reg_geo_csv[k], date)}

\* C27: at every date the registration-geography table has at most one row
\* of practice "Unallocated"; it has one exactly when a Living record is
\* registered at a practice without an active list-size entry, with every name
\* and geography column "Unallocated", LIST_SIZE 0 and the opt-outs of all
\* those practices; every other row is the one row of a practice with a list
\* size, with that list size and the opt-outs of that practice, 0 if none.
C27_OneUnallocatedRowPerDate ==
    RegGeoDone =>
        \A date \in Range(months) :
            LET rows == RegGeoRowsAt(date)
                unallocated == {k \in rows : ndop_reg_geo_csv[k].GP_PRACTICE = Unallocated}
            IN /\ Cardinality(unallocated) <= 1
               /\ (unallocated # {}) <=> (OptOutsWithoutListSize(date) > 0)
               /\ \A k \in unallocated :
                     /\ \A c \in Range(practice_geography_columns) :
                           ndop_reg_geo_csv[k][c] = Unallocated
                     /\ ndop_reg_geo_csv[k].LIST_SIZE = 0
                     /\ ndop_reg_geo_csv[k].OPT_OUT = OptOutsWithoutListSize(date)
               /\ \A k \in rows \ unallocated :
                     LET r == ndop_reg_geo_csv[k]
                     IN /\ HasActiveListSize(r.GP_PRACTICE, date)
                        /\ r.LIST_SIZE = ListSizeOfPractice(r.GP_PRACTICE, date)
                        /\ r.OPT_OUT = OptOutsOfPractice(r.GP_PRACTICE, date)
                        /\ \A j \in rows : ndop_reg_geo_csv[j].GP_PRACTICE = r.GP_PRACTICE
                                              => j = k
               /\ \A n \in 1..Len(list_size_df) :
                     list_size_df[n].ACH_DATE = date =>
                         \E k \in rows :
                             ndop_reg_geo_csv[k].GP_PRACTICE = list_size_df[n].GP_PRACTICE

-----------------------------------------------------------------------------
(* Living and Deceased across the dates *)

\* C28: a patient with a row in the Deceased table at a snapshot date has no
\* row in the Living table at a later snapshot date.
C28_DeathIrreversible ==
    Resolved =>
        \A j \in 1..Len(ndop_deceased_concat_df) : \A i \in 1..Len(ndop_concat_df) :
            ndop_concat_df[i].NHS_Number = ndop_deceased_concat_df[j].NHS_Number =>
                Ordinal(ndop_concat_df[i].ACH_DATE)
                    <= Ordinal(ndop_deceased_concat_df[j].ACH_DATE)

\* C29: at every snapshot date, every patient with a record active at the
\* date has a row of the date in the Living or in the Deceased table, and
\* every row of either table is of a snapshot date and of a patient with a
\* record active at that date.
C29_NoPatientLostOrInvented ==
    Resolved =>
        /\ \A date \in Range(months) : \A i \in ActiveAt(date) :
              \/ RowsOf(ndop_concat_df, date, ndop_df[i].NHS_Number) # {}
              \/ RowsOf(ndop_deceased_concat_df, date, ndop_df[i].NHS_Number) # {}
        /\ \A k \in 1..Len(ndop_concat_df) :
              /\ ndop_concat_df[k].ACH_DATE \in Range(months)
              /\ \E i \in ActiveAt(ndop_concat_df[k].ACH_DATE) :
                    ndop_df[i].NHS_Number = ndop_concat_df[k].NHS_Number
        /\ \A k \in 1..Len(ndop_deceased_concat_df) :
              /\ ndop_deceased_concat_df[k].ACH_DATE \in Range(months)
              /\ \E i \in ActiveAt(ndop_deceased_concat_df[k].ACH_DATE) :
                    ndop_df[i].NHS_Number = ndop_deceased_concat_df[k].NHS_Number

\* at one date a patient is in the Living table only, another who died on
\* the date is in the Deceased table only, and at another date one of them has
\* no active record and no row
C29_Witness ==
    /\ Resolved
    /\ \E date \in Range(months) : \E i, j \in ActiveAt(date) :
          /\ RowsOf(ndop_concat_df, date, ndop_df[i].NHS_Number) # {}
          /\ RowsOf(ndop_deceased_concat_df, date, ndop_df[i].NHS_Number) = {}
          /\ ndop_df[j].DATE_OF_DEATH = date
          /\ RowsOf(ndop_concat_df, date, ndop_df[j].NHS_Number) = {}
          /\ RowsOf(ndop_deceased_concat_df, date, ndop_df[j].NHS_Number) # {}
    /\ \E date \in Range(months) : \E i \in 1..Len(ndop_df) :
          /\ \A j \in ActiveAt(date) : ndop_df[j].NHS_Number # ndop_df[i].NHS_Number
          /\ RowsOf(ndop_concat_df, date, ndop_df[i].NHS_Number) = {}
          /\ RowsOf(ndop_deceased_concat_df, date, ndop_df[i].NHS_Number) = {}

-----------------------------------------------------------------------------
(* Extraction window *)

\* the source table cleaned as get_ndop_data cleans it, without the WHERE
\* clause of the extraction
CleanedUnfiltered ==
    remap_ndop_gender_column(
      remap_ndop_age_column(
        remove_practice_code_whitespace(
          clean_nhs_numbers(sql_ndop, ndop_columns).df)))

\* a record of the source table is active at the date
SourceActiveAt(r, date) ==
    /\ ~isnat(r.Record_Start_Date)
    /\ Ordinal(r.Record_Start_Date) <= Ordinal(date)
    /\ isnat(r.Record_End_Date) \/ Ordinal(r.Record_End_Date) >= Ordinal(date)

\* C30: the extraction keeps every record of the source that is active at a
\* snapshot date of the window, and the Living and Deceased tables of the run
\* are those that resolving every snapshot date over the whole cleaned source
\* gives.
C30_ExtractionKeepsActiveRecords ==
    /\ Loaded =>
          \A date \in Range(months) : \A i \in 1..Len(sql_ndop) :
              SourceActiveAt(sql_ndop[i], date) =>
                  sql_ndop[i] \in Range(sql_get_ndop_data(sql_ndop, start_date, end_date))
    /\ pc \in {"living", "preprocessed", "age_gen"} =>
          ndop_concat_df =
              Flatten([k \in 1..Len(months) |->
                         process_active_ndop_records(CleanedUnfiltered, months[k])])
    /\ Resolved =>
          ndop_deceased_concat_df =
              Flatten([k \in 1..Len(months) |->
                         process_deceased_ndop_records(CleanedUnfiltered, months[k])])

\* the extraction has left out a record of the source, and a record that
\* ends on the first day of the window is in the Living table
C30_Witness ==
    /\ pc = "preprocessed"
    /\ Len(ndop_df) < Len(sql_ndop)
    /\ \E k \in 1..Len(ndop_concat_df) :
          /\ ndop_concat_df[k].Record_End_Date = start_date
          /\ ndop_concat_df[k].ACH_DATE = start_date

====
